---------------------------- MODULE Spec2Model ----------------------------
(***************************************************************************)
(* The file-backed course store of src/src/services/course_storage.py     *)
(* (class CourseStorage): materialization of a course tree, the lesson    *)
(* locator, the per-lesson record store and the progress aggregator.      *)
(*                                                                         *)
(* Text (names, agendas, plans, code, directory names) is a sequence of   *)
(* one-character strings.  A JSON value that may be missing is a tagged    *)
(* record: Absent (no such key / no such file), Null (JSON null) or        *)
(* Val(v).  A timestamp string is Val-wrapped by IsoFormat.                *)
(***************************************************************************)
EXTENDS Integers, Sequences, FiniteSets, TLC

VARIABLES
    store,   \* base_dir: course directory name -> course directory content
    now,     \* the wall clock read by datetime.now(), in seconds
    given,   \* course directory name -> the document last passed to create_course_structure
    ret,     \* the last mutating call: operation, arguments, returned value
    used,    \* how many calls that changed the store, outside renames, outside damages
             \* and write faults so far
    inflight \* the calls that have begun and not returned, when calls overlap

vars == <<store, now, given, ret, used, inflight>>

-----------------------------------------------------------------------------
(* Bounds of the model *)

MaxCalls == 4
MaxTicks == 2
TickSeconds == 45
MaxRenames == 1
MaxDamages == 1
MaxInflight == 2
MaxIdx == 2

(* Constants of the program *)

SectionCap == 7
SubsectionCap == 10
ConceptCap == 10
NameMaxLen == 50
SecondsPerMinute == 60
PercentScale == 100

-----------------------------------------------------------------------------
(* Optional values *)

Absent == [tag |-> "absent"]
Null == [tag |-> "null"]
Val(v) == [tag |-> "val", v |-> v]
IsVal(x) == x.tag = "val"

\* a JSON file that exists and does not parse (json.load raises)
Corrupt == [tag |-> "corrupt"]
\* path.exists()
Exists(x) == x.tag # "absent"

Min(a, b) == IF a < b THEN a ELSE b

\* seq[:n]
Take(seq, n) == SubSeq(seq, 1, Min(Len(seq), n))

\* seq.startswith(prefix)
StartsWith(seq, prefix) ==
    /\ Len(seq) >= Len(prefix)
    /\ SubSeq(seq, 1, Len(prefix)) = prefix

-----------------------------------------------------------------------------
(* Characters and text *)

Digits == <<"0", "1", "2", "3", "4", "5", "6", "7", "8", "9">>

AlnumChars ==
    {"a", "b", "c", "d", "e", "f", "g", "h", "i", "j", "k", "l", "m",
     "n", "o", "p", "q", "r", "s", "t", "u", "v", "w", "x", "y", "z",
     "A", "B", "C", "D", "E", "F", "G", "H", "I", "J", "K", "L", "M",
     "N", "O", "P", "Q", "R", "S", "T", "U", "V", "W", "X", "Y", "Z",
     "0", "1", "2", "3", "4", "5", "6", "7", "8", "9"}

Whitespace == {" ", "\t", "\n", "\r"}

\* str.rstrip()
RECURSIVE RStrip(_)
RStrip(s) ==
    IF s # <<>> /\ s[Len(s)] \in Whitespace
    THEN RStrip(SubSeq(s, 1, Len(s) - 1))
    ELSE s

\* str.lstrip()
RECURSIVE LStrip(_)
LStrip(s) ==
    IF s # <<>> /\ s[1] \in Whitespace
    THEN LStrip(Tail(s))
    ELSE s

\* str.strip()
Strip(s) == LStrip(RStrip(s))

\* str.replace(' ', '_')
ReplaceSpaces(s) == [i \in 1..Len(s) |-> IF s[i] = " " THEN "_" ELSE s[i]]

IsSafeChar(c) == c \in AlnumChars \/ c \in {" ", "-", "_"}

_safe_name_NoReplace(name) ==
    Take(RStrip(SelectSeq(name, IsSafeChar)), NameMaxLen)

\* CourseStorage._safe_name
_safe_name(name) ==
    Take(ReplaceSpaces(RStrip(SelectSeq(name, IsSafeChar))), NameMaxLen)

\* str(n) for n >= 0
RECURSIVE Decimal(_)
Decimal(n) ==
    IF n < 10 THEN <<Digits[n + 1]>>
    ELSE Decimal(n \div 10) \o <<Digits[(n % 10) + 1]>>

Format02d_NoPad(n) == Decimal(n)

\* f"{n:02d}"
Format02d(n) ==
    LET d == Decimal(n)
    IN  IF Len(d) < 2 THEN <<"0">> \o d ELSE d

ModulePrefix == <<"m", "o", "d", "u", "l", "e", "_">>
SubmodulePrefix == <<"s", "u", "b", "m", "o", "d", "u", "l", "e", "_">>
LessonPrefix == <<"l", "e", "s", "s", "o", "n", "_">>

\* f"module_{section_idx:02d}_{self._safe_name(section['name'])}"
ModuleDirName(idx, name) ==
    ModulePrefix \o Format02d(idx) \o <<"_">> \o _safe_name(name)

\* f"submodule_{sub_idx:02d}_{self._safe_name(subsection['name'])}"
SubmoduleDirName(idx, name) ==
    SubmodulePrefix \o Format02d(idx) \o <<"_">> \o _safe_name(name)

LessonDirName_NameOnly(idx, name) ==
    LessonPrefix \o _safe_name(name)

\* f"lesson_{concept_idx:02d}_{self._safe_name(concept['name'])}"
LessonDirName(idx, name) ==
    LessonPrefix \o Format02d(idx) \o <<"_">> \o _safe_name(name)

\* datetime.now().isoformat()
IsoFormat(t) == Val(t)

\* datetime.fromisoformat(s.replace('Z', '+00:00'))
FromIsoFormat(s) == s.v

-----------------------------------------------------------------------------
(* Course documents: {"sections": [{"name", "subsections": [{"name",      *)
(* "concepts": [{"name", "agenda"}]}]}]}.  "index" is the key the          *)
(* materializer adds; an input document does not carry it.                 *)

Concept(name, agenda) == [name |-> name, agenda |-> agenda, index |-> Absent]
Subsection(name, concepts) == [name |-> name, concepts |-> concepts, index |-> Absent]
Section(name, subsections) == [name |-> name, subsections |-> subsections, index |-> Absent]

DataStructuresName ==
    <<"D", "a", "t", "a", " ", "S", "t", "r", "u", "c", "t", "u", "r", "e", "s">>
NonexistentName == <<"N", "o", "n", "e", "x", "i", "s", "t", "e", "n", "t">>

\* the course names create_course_structure is called with
CourseNames == {DataStructuresName}
\* the course names the other operations are called with
LookupNames == CourseNames \cup {NonexistentName}

DocDS ==
    [sections |-> <<
        Section(<<"A", "r", "r", "a", "y", "s">>, <<
            Subsection(<<"B", "a", "s", "i", "c", "s">>, <<
                Concept(<<"I", "n", "d", "e", "x", "i", "n", "g">>, <<"a", "1">>),
                Concept(<<"T", "r", "a", "v", "e", "r", "s", "a", "l">>, <<" ", "a", "2", "\n">>)
            >>)
        >>)
    >>]

DocEmpty == [sections |-> <<>>]

\* one lesson, at (2, 2, 1); names the sanitizer changes
DocTwo ==
    [sections |-> <<
        Section(<<"L", "i", "s", "t", "s">>, <<
            Subsection(<<"M", "o", "r", "e", "!">>, <<>>)
        >>),
        Section(<<"T", "r", "e", "e", " ", "s", " ">>, <<
            Subsection(<<"E", "m", "p", "t", "y">>, <<>>),
            Subsection(<<"I", "n", " ", "/", "o", "u", "t">>, <<
                Concept(<<"N", "o", "d", "e", "s">>, <<"b">>)
            >>)
        >>)
    >>]

\* more siblings than the fan-out cap at each of the three levels: one more
\* section than SectionCap, the last kept section with one more subsection than
\* SubsectionCap, its last kept subsection with one more concept than ConceptCap
DocWide ==
    [sections |->
        [s \in 1..(SectionCap + 1) |->
            Section(<<"S">> \o Decimal(s),
                IF s = SectionCap
                THEN [u \in 1..(SubsectionCap + 1) |->
                        Subsection(<<"U">> \o Decimal(u),
                            IF u = SubsectionCap
                            THEN [c \in 1..(ConceptCap + 1) |->
                                    Concept(<<"C">> \o Decimal(c), <<"w">>)]
                            ELSE <<>>)]
                ELSE <<>>)]]

\* no "sections" key
DocNoSections == [title |-> <<"T">>]

\* a section with no "subsections" key, a subsection with no "concepts" key
DocSparse ==
    [sections |-> <<
        [name |-> <<"H", "e", "a", "p", "s">>, index |-> Absent],
        [name |-> <<"G", "r", "a", "p", "h", "s">>, index |-> Absent,
         subsections |-> <<[name |-> <<"P", "a", "t", "h", "s">>, index |-> Absent]>>]
    >>]

Documents == {DocDS, DocEmpty, DocTwo, DocWide, DocNoSections, DocSparse}

\* a name of NameMaxLen + 1 characters ending in `last`
OverlongName(last) == [i \in 1..NameMaxLen |-> "a"] \o <<last>>

\* siblings whose names give the same token at each level: sections "a b" and
\* "a_b"; subsections "!" and "?", both with the empty token; concepts with
\* equal names, with names that differ after NameMaxLen characters, and with
\* names of the empty token
DocClash ==
    [sections |-> <<
        Section(<<"a", " ", "b">>, <<
            Subsection(<<"!">>, <<
                Concept(<<"x">>, <<"p">>),
                Concept(<<"x">>, <<"q">>)
            >>),
            Subsection(<<"?">>, <<
                Concept(OverlongName("b"), <<"r">>),
                Concept(OverlongName("c"), <<"s">>)
            >>)
        >>),
        Section(<<"a", "_", "b">>, <<
            Subsection(<<"u">>, <<
                Concept(<<"!">>, <<"t">>),
                Concept(<<"?">>, <<"v">>)
            >>)
        >>)
    >>]

\* the second concept has no "agenda" key
DocNoAgenda ==
    [DocDS EXCEPT !.sections[1].subsections[1].concepts[2] =
        [name |-> <<"T", "r", "a", "v", "e", "r", "s", "a", "l">>, index |-> Absent]]

\* the second section has no "name" key
DocNoName ==
    [sections |-> DocDS.sections \o <<[index |-> Absent, subsections |-> <<>>]>>]

\* documents on which create_course_structure raises KeyError
BrokenDocuments == {DocNoAgenda, DocNoName}

\* the documents whose lessons the calls of a behaviour can address
SmallDocuments == {DocDS, DocTwo}

\* course_data.get("sections", []), section.get("subsections", []),
\* subsection.get("concepts", [])
SectionsOf(course_data) ==
    IF "sections" \in DOMAIN course_data THEN course_data.sections ELSE <<>>
SubsectionsOf(section) ==
    IF "subsections" \in DOMAIN section THEN section.subsections ELSE <<>>
ConceptsOf(subsection) ==
    IF "concepts" \in DOMAIN subsection THEN subsection.concepts ELSE <<>>

-----------------------------------------------------------------------------
(* The annotated document written to course_structure.json *)

\* for concept_idx, concept in enumerate(concepts[:10], 1): concept["index"] = concept_idx
AnnotateConcepts(concepts) ==
    [c \in 1..Len(concepts) |->
        IF c <= ConceptCap THEN [concepts[c] EXCEPT !.index = Val(c)] ELSE concepts[c]]

\* for sub_idx, subsection in enumerate(subsections[:10], 1): subsection["index"] = sub_idx
AnnotateSubsections(subsections) ==
    [u \in 1..Len(subsections) |->
        IF u <= SubsectionCap
        THEN IF "concepts" \in DOMAIN subsections[u]
             THEN [subsections[u] EXCEPT !.index = Val(u),
                                        !.concepts = AnnotateConcepts(subsections[u].concepts)]
             ELSE [subsections[u] EXCEPT !.index = Val(u)]
        ELSE subsections[u]]

\* for section_idx, section in enumerate(sections[:7], 1): section["index"] = section_idx
AnnotateSections(sections) ==
    [s \in 1..Len(sections) |->
        IF s <= SectionCap
        THEN IF "subsections" \in DOMAIN sections[s]
             THEN [sections[s] EXCEPT !.index = Val(s),
                                     !.subsections = AnnotateSubsections(sections[s].subsections)]
             ELSE [sections[s] EXCEPT !.index = Val(s)]
        ELSE sections[s]]

EnhancedCourseData(course_data) ==
    IF "sections" \in DOMAIN course_data
    THEN [course_data EXCEPT !.sections = AnnotateSections(course_data.sections)]
    ELSE course_data

-----------------------------------------------------------------------------
(* Directory content *)

\* an empty course directory
EmptyCourseDir ==
    [manifest |-> Absent, secs |-> <<>>, subs |-> <<>>, lessons |-> <<>>]

\* section_info.json
SectionInfo(section, section_idx, t) ==
    [name |-> section.name, index |-> section_idx, created_at |-> IsoFormat(t)]

\* subsection_info.json
SubsectionInfo(section, subsection, sub_idx, t) ==
    [name |-> subsection.name, index |-> sub_idx,
     section_name |-> section.name, created_at |-> IsoFormat(t)]

ConceptInfo_ZeroBased(section, subsection, concept, concept_idx, t) ==
    [name |-> concept.name,
     agenda |-> concept.agenda,
     index |-> concept_idx - 1,
     subsection_name |-> subsection.name,
     section_name |-> section.name,
     created_at |-> IsoFormat(t),
     completed |-> FALSE,
     detailed_plan |-> Null,
     completed_at |-> Absent,
     first_code_update |-> Absent,
     code_file |-> Absent,
     last_code_update |-> Absent,
     total_time_minutes |-> Absent,
     youtube_videos |-> Absent,
     youtube_videos_file |-> Absent]

\* concept_info.json as create_course_structure writes it; the keys the later
\* operations add are Absent
ConceptInfo(section, subsection, concept, concept_idx, t) ==
    [name |-> concept.name,
     agenda |-> concept.agenda,
     index |-> concept_idx,
     subsection_name |-> subsection.name,
     section_name |-> section.name,
     created_at |-> IsoFormat(t),
     completed |-> FALSE,
     detailed_plan |-> Null,
     completed_at |-> Absent,
     first_code_update |-> Absent,
     code_file |-> Absent,
     last_code_update |-> Absent,
     total_time_minutes |-> Absent,
     youtube_videos |-> Absent,
     youtube_videos_file |-> Absent]

\* a lesson directory mkdir has just created
EmptyLessonDir ==
    [info |-> Absent, agenda_txt |-> Absent, detailed_plan_txt |-> Absent,
     student_code_txt |-> Absent, youtube_videos_json |-> Absent,
     video_transcripts |-> <<>>, video_summaries |-> <<>>]

-----------------------------------------------------------------------------
(* create_course_structure *)

\* the indices enumerate(xs[:cap], 1) yields at each level
SectionIdxs_Uncapped(doc) == 1..Len(SectionsOf(doc))

SectionIdxs(doc) == 1..Len(Take(SectionsOf(doc), SectionCap))
SubsectionIdxs(doc, s) == 1..Len(Take(SubsectionsOf(doc.sections[s]), SubsectionCap))
ConceptIdxs(doc, s, u) ==
    1..Len(Take(ConceptsOf(doc.sections[s].subsections[u]), ConceptCap))

SubsectionCoords(doc) ==
    UNION {{<<s, u>> : u \in SubsectionIdxs(doc, s)} : s \in SectionIdxs(doc)}
ConceptCoords(doc) ==
    UNION {{<<k[1], k[2], c>> : c \in ConceptIdxs(doc, k[1], k[2])} :
            k \in SubsectionCoords(doc)}

\* the directory each loop iteration makes, as a path below the course directory
SectionDirOf(doc, s) == ModuleDirName(s, doc.sections[s].name)
SubsectionDirOf(doc, s, u) ==
    <<SectionDirOf(doc, s), SubmoduleDirName(u, doc.sections[s].subsections[u].name)>>
ConceptDirOf(doc, s, u, c) ==
    SubsectionDirOf(doc, s, u) \o
        <<LessonDirName(c, doc.sections[s].subsections[u].concepts[c].name)>>

\* loop order of the nested enumerate loops
LexLeq(j, k) ==
    \E i \in 1..(Len(j) + 1) :
        /\ \A m \in 1..(i - 1) : j[m] = k[m]
        /\ i = Len(j) + 1 \/ j[i] < k[i]

\* the iteration that writes a file last is the one whose content stays
LastOf(K) == CHOOSE k \in K : \A j \in K : LexLeq(j, k)

\* course_dir.exists(), for course_dir = self.base_dir / dir: the empty name is
\* base_dir itself, which __init__ makes
DirExists(fs, dir) == dir = <<>> \/ dir \in DOMAIN fs

\* what the directory of a course holds; under the empty name, what base_dir
\* holds beside the course directories
CourseAt(fs, dir) == IF dir \in DOMAIN fs THEN fs[dir] ELSE EmptyCourseDir

RmTree_Skip(fs, dir) == fs

\* shutil.rmtree(course_dir): removing base_dir removes every course directory
RmTree(fs, dir) == IF dir = <<>> THEN <<>> ELSE [d \in DOMAIN fs \ {dir} |-> fs[d]]

\* course_dir.mkdir(exist_ok=True)
MkDir(fs, dir) ==
    [d \in DOMAIN fs \cup {dir} |-> IF d \in DOMAIN fs THEN fs[d] ELSE EmptyCourseDir]

\* one step of create_course_structure: "rmtree", "mkdir" and "manifest" of the
\* course directory (k = <<>>), and for the node at coordinate k its "mkdir", the
\* write of its "info" file and, for a concept, the write of its "agenda" file
Step(kind, k) == [kind |-> kind, k |-> k]

RootSteps == {Step("rmtree", <<>>), Step("mkdir", <<>>), Step("manifest", <<>>)}

\* the steps the three nested loops make
NodeSteps(doc) ==
    {Step(kind, <<s>>) : s \in SectionIdxs(doc), kind \in {"mkdir", "info"}}
    \cup {Step(kind, k) : k \in SubsectionCoords(doc), kind \in {"mkdir", "info"}}
    \cup {Step(kind, k) : k \in ConceptCoords(doc), kind \in {"mkdir", "info", "agenda"}}

CreateSteps(doc) == RootSteps \cup NodeSteps(doc)

\* the position of a step in execution order: the loops visit a node before the
\* nodes below it and before its later siblings
Rank(step) ==
    LET k == step.k
        s == IF Len(k) >= 1 THEN k[1] ELSE 0
        u == IF Len(k) >= 2 THEN k[2] ELSE 0
        c == IF Len(k) >= 3 THEN k[3] ELSE 0
        phase == CASE step.kind = "rmtree" -> 0
                   [] step.kind = "mkdir" -> IF k = <<>> THEN 1 ELSE 0
                   [] step.kind = "manifest" -> 2
                   [] step.kind = "info" -> 1
                   [] step.kind = "agenda" -> 2
    IN  IF k = <<>> THEN phase
        ELSE 3 + 3 * ((s * (SubsectionCap + 1) + u) * (ConceptCap + 1) + c) + phase

\* the steps made before step `step`
StepsBefore(doc, step) == {st \in CreateSteps(doc) : Rank(st) < Rank(step)}

\* the node of a document at coordinate k
NodeAt(doc, k) ==
    IF Len(k) = 1 THEN doc.sections[k[1]]
    ELSE IF Len(k) = 2 THEN doc.sections[k[1]].subsections[k[2]]
    ELSE doc.sections[k[1]].subsections[k[2]].concepts[k[3]]

\* the writes of create_course_structure into course directory content `course`
\* by the steps `done`: mkdir(exist_ok=True) keeps what a directory holds,
\* open(..., "w") replaces a file
WriteTreeSteps(course, doc, t, done) ==
    LET made(k) == Step("mkdir", k) \in done
        wrote(k) == Step("info", k) \in done
        newSecs == {SectionDirOf(doc, s) : s \in {x \in SectionIdxs(doc) : made(<<x>>)}}
        newSubs == {SubsectionDirOf(doc, k[1], k[2]) :
                        k \in {x \in SubsectionCoords(doc) : made(x)}}
        newLessons == {ConceptDirOf(doc, k[1], k[2], k[3]) :
                        k \in {x \in ConceptCoords(doc) : made(x)}}
        secOf(d) == LastOf({<<s>> : s \in {x \in SectionIdxs(doc) :
                                made(<<x>>) /\ SectionDirOf(doc, x) = d}})[1]
        subOf(d) == LastOf({k \in SubsectionCoords(doc) :
                                made(k) /\ SubsectionDirOf(doc, k[1], k[2]) = d})
        conOf(d) == LastOf({k \in ConceptCoords(doc) :
                                made(k) /\ ConceptDirOf(doc, k[1], k[2], k[3]) = d})
        secInfo(d) == SectionInfo(doc.sections[secOf(d)], secOf(d), t)
        subInfo(d) ==
            LET k == subOf(d)
            IN  SubsectionInfo(doc.sections[k[1]],
                               doc.sections[k[1]].subsections[k[2]], k[2], t)
        conInfo(d) ==
            LET k == conOf(d)
            IN  ConceptInfo(doc.sections[k[1]],
                            doc.sections[k[1]].subsections[k[2]],
                            doc.sections[k[1]].subsections[k[2]].concepts[k[3]], k[3], t)
        conAgenda(d) ==
            LET k == conOf(d)
            IN  doc.sections[k[1]].subsections[k[2]].concepts[k[3]].agenda
        oldSec(d) == IF d \in DOMAIN course.secs THEN course.secs[d] ELSE [info |-> Absent]
        oldSub(d) == IF d \in DOMAIN course.subs THEN course.subs[d] ELSE [info |-> Absent]
        oldLesson(d) ==
            IF d \in DOMAIN course.lessons THEN course.lessons[d] ELSE EmptyLessonDir
        infoOf(d) ==
            IF wrote(conOf(d)) THEN [oldLesson(d) EXCEPT !.info = Val(conInfo(d))]
            ELSE oldLesson(d)
    IN  [manifest |-> IF Step("manifest", <<>>) \in done
                      THEN Val(EnhancedCourseData(doc)) ELSE course.manifest,
         secs |-> [d \in DOMAIN course.secs \cup newSecs |->
                    IF d \in newSecs /\ wrote(<<secOf(d)>>)
                    THEN [info |-> Val(secInfo(d))] ELSE oldSec(d)],
         subs |-> [d \in DOMAIN course.subs \cup newSubs |->
                    IF d \in newSubs /\ wrote(subOf(d))
                    THEN [info |-> Val(subInfo(d))] ELSE oldSub(d)],
         lessons |-> [d \in DOMAIN course.lessons \cup newLessons |->
                    IF d \notin newLessons THEN course.lessons[d]
                    ELSE IF Step("agenda", conOf(d)) \in done
                    THEN [infoOf(d) EXCEPT !.agenda_txt = Val(conAgenda(d))]
                    ELSE infoOf(d)]]

\* all the writes of a call that runs to its end
WriteTree(course, doc, t) == WriteTreeSteps(course, doc, t, CreateSteps(doc))

\* CourseStorage.create_course_structure: the store after the call
CreateCourseStructureFs(fs, course_name, course_data, t) ==
    LET dir == _safe_name(course_name)
        cleared == IF DirExists(fs, dir) THEN RmTree(fs, dir) ELSE fs
        made == MkDir(cleared, dir)
    IN  [made EXCEPT ![dir] = WriteTree(made[dir], course_data, t)]

\* a step of create_course_structure that raises an I/O error, before the file it
\* writes is opened or after it is truncated
NoCreateFault == [step |-> Step("none", <<>>), truncates |-> FALSE]
CreateFaults(doc) ==
    {[step |-> st, truncates |-> b] :
        st \in CreateSteps(doc) \ {Step("rmtree", <<>>)}, b \in BOOLEAN}
    \ {f \in [step : CreateSteps(doc), truncates : {TRUE}] : f.step.kind = "mkdir"}

\* the steps that raise KeyError: section['name'], subsection['name'] and
\* concept['name'] are read to name the directory, concept["agenda"] after
\* concept_info.json has been opened for writing
KeyErrorSteps(doc) ==
    {Step("mkdir", k) :
        k \in {x \in {<<i>> : i \in SectionIdxs(doc)} \cup SubsectionCoords(doc)
                        \cup ConceptCoords(doc) : "name" \notin DOMAIN NodeAt(doc, x)}}
    \cup {Step("info", k) :
        k \in {x \in ConceptCoords(doc) : "agenda" \notin DOMAIN NodeAt(doc, x)}}

\* the steps at which a call on `doc` that meets `fault` can end
RaisingSteps(doc, fault) ==
    KeyErrorSteps(doc) \cup ({fault.step} \cap CreateSteps(doc))

\* the call ends with an exception
CreateRaises(doc, fault) == RaisingSteps(doc, fault) # {}

\* the directory of the node at coordinate k
DirOfNode(doc, k) ==
    IF Len(k) = 1 THEN <<SectionDirOf(doc, k[1])>>
    ELSE IF Len(k) = 2 THEN SubsectionDirOf(doc, k[1], k[2])
    ELSE ConceptDirOf(doc, k[1], k[2], k[3])

\* the course directory after the write of step `step` raised with the file
\* already truncated
TruncateTreeFile(course, doc, step) ==
    LET d == DirOfNode(doc, step.k)
    IN  IF step.kind = "manifest" THEN [course EXCEPT !.manifest = Corrupt]
        ELSE IF step.kind = "agenda" THEN [course EXCEPT !.lessons[d].agenda_txt = Val(<<>>)]
        ELSE IF Len(step.k) = 1 THEN [course EXCEPT !.secs[d[1]].info = Corrupt]
        ELSE IF Len(step.k) = 2 THEN [course EXCEPT !.subs[d].info = Corrupt]
        ELSE [course EXCEPT !.lessons[d].info = Corrupt]

create_course_structure_RollsBack(fs, course_name, course_data, t, fault) ==
    IF ~CreateRaises(course_data, fault)
    THEN [fs |-> CreateCourseStructureFs(fs, course_name, course_data, t), raised |-> FALSE]
    ELSE [fs |-> fs, raised |-> TRUE]

\* CourseStorage.create_course_structure: the store when the call ends and
\* whether it ended with an exception; there is no try in the function
create_course_structure(fs, course_name, course_data, t, fault) ==
    LET dir == _safe_name(course_name)
        cleared == IF DirExists(fs, dir) THEN RmTree(fs, dir) ELSE fs
        made == MkDir(cleared, dir)
        raising == RaisingSteps(course_data, fault)
        failed == CHOOSE x \in raising : \A y \in raising : Rank(x) <= Rank(y)
        truncates == IF failed = fault.step THEN fault.truncates ELSE failed.kind = "info"
        written == WriteTreeSteps(made[dir], course_data, t, StepsBefore(course_data, failed))
    IN  IF ~CreateRaises(course_data, fault)
        THEN [fs |-> CreateCourseStructureFs(fs, course_name, course_data, t),
              raised |-> FALSE]
        ELSE IF failed = Step("mkdir", <<>>) THEN [fs |-> cleared, raised |-> TRUE]
        ELSE [fs |-> [made EXCEPT ![dir] =
                        IF truncates THEN TruncateTreeFile(written, course_data, failed)
                        ELSE written],
              raised |-> TRUE]

\* course_service.save_course_to_storage: the caller of create_course_structure
\* catches the exception and returns "" instead of the course path
save_course_to_storage(fs, course_name, course_data, t, fault) ==
    LET out == create_course_structure(fs, course_name, course_data, t, fault)
    IN  [fs |-> out.fs,
         course_path |-> IF out.raised THEN <<>> ELSE _safe_name(course_name)]

-----------------------------------------------------------------------------
(* The lesson locator *)

\* the metadata index of a directory, Absent when the metadata file is missing
InfoIndex(entry) == IF IsVal(entry.info) THEN Val(entry.info.v.index) ELSE Absent

\* course_dir.glob("module_*") with section_info.json holding index == module_idx
ModulesByInfo(course, module_idx) ==
    {md \in DOMAIN course.secs :
        /\ StartsWith(md, ModulePrefix)
        /\ InfoIndex(course.secs[md]) = Val(module_idx)}

\* module_dir.glob("submodule_*") with subsection_info.json holding index == submodule_idx
SubmodulesByInfo(course, md, submodule_idx) ==
    {smd \in DOMAIN course.subs :
        /\ smd[1] = md
        /\ StartsWith(smd[2], SubmodulePrefix)
        /\ InfoIndex(course.subs[smd]) = Val(submodule_idx)}

\* submodule_dir.glob("lesson_*") with concept_info.json holding index == lesson_idx
LessonsByInfo(course, smd, lesson_idx) ==
    {ld \in DOMAIN course.lessons :
        /\ SubSeq(ld, 1, 2) = smd
        /\ StartsWith(ld[3], LessonPrefix)
        /\ InfoIndex(course.lessons[ld]) = Val(lesson_idx)}

GlobLessonPattern_AnyLesson(course, module_idx, submodule_idx, lesson_idx) ==
    {ld \in DOMAIN course.lessons :
        /\ StartsWith(ld[1], ModulePrefix \o Format02d(module_idx) \o <<"_">>)
        /\ StartsWith(ld[2], SubmodulePrefix \o Format02d(submodule_idx) \o <<"_">>)
        /\ StartsWith(ld[3], LessonPrefix)}

\* the lesson directories matching the glob
\* f"module_{module_idx:02d}_*/submodule_{submodule_idx:02d}_*/lesson_{lesson_idx:02d}_*"
GlobLessonPattern(course, module_idx, submodule_idx, lesson_idx) ==
    {ld \in DOMAIN course.lessons :
        /\ StartsWith(ld[1], ModulePrefix \o Format02d(module_idx) \o <<"_">>)
        /\ StartsWith(ld[2], SubmodulePrefix \o Format02d(submodule_idx) \o <<"_">>)
        /\ StartsWith(ld[3], LessonPrefix \o Format02d(lesson_idx) \o <<"_">>)}

\* the lesson directories the nested fallback loops of get_lesson_agenda,
\* save_detailed_lesson_plan and get_detailed_lesson_plan reach: metadata index
\* equal to the coordinate at all three levels
ScanLessonsByInfo(course, module_idx, submodule_idx, lesson_idx) ==
    UNION {UNION {LessonsByInfo(course, smd, lesson_idx) :
                    smd \in SubmodulesByInfo(course, md, submodule_idx)} :
            md \in ModulesByInfo(course, module_idx)}

\* the directories of one level whose metadata file exists and does not parse:
\* json.load raises when the loop reaches one of them
CorruptModules(course) ==
    {md \in DOMAIN course.secs :
        StartsWith(md, ModulePrefix) /\ course.secs[md].info = Corrupt}
CorruptSubmodules(course, md) ==
    {smd \in DOMAIN course.subs :
        smd[1] = md /\ StartsWith(smd[2], SubmodulePrefix) /\ course.subs[smd].info = Corrupt}
CorruptLessons(course, smd) ==
    {ld \in DOMAIN course.lessons :
        /\ SubSeq(ld, 1, 2) = smd
        /\ StartsWith(ld[3], LessonPrefix)
        /\ course.lessons[ld].info = Corrupt}

\* the nested fallback loops can reach a metadata file that does not parse
\* before they reach a lesson with the requested indices
ScanMayRaise(course, module_idx, submodule_idx, lesson_idx) ==
    \/ CorruptModules(course) # {}
    \/ \E md \in ModulesByInfo(course, module_idx) :
        \/ CorruptSubmodules(course, md) # {}
        \/ \E smd \in SubmodulesByInfo(course, md, submodule_idx) :
                CorruptLessons(course, smd) # {}

_get_lesson_directory_ByName(fs, course_name, module_idx, submodule_idx, lesson_idx) ==
    LET dir == _safe_name(course_name)
    IN  IF ~DirExists(fs, dir) THEN {Absent}
        ELSE
          LET G == GlobLessonPattern(CourseAt(fs, dir), module_idx, submodule_idx, lesson_idx)
          IN  IF G = {} THEN {Absent} ELSE {Val(ld) : ld \in G}

\* CourseStorage._get_lesson_directory: every value the call can return (glob
\* yields the entries of a directory in no fixed order; the first match at each
\* level is taken; a metadata file that does not parse, met before the match,
\* raises into the except clause).  Absent is None.
_get_lesson_directory(fs, course_name, module_idx, submodule_idx, lesson_idx) ==
    LET dir == _safe_name(course_name)
    IN  IF ~DirExists(fs, dir) THEN {Absent}
        ELSE
          LET course == CourseAt(fs, dir)
              M == ModulesByInfo(course, module_idx)
              FromSub(smd) ==
                  LET L == LessonsByInfo(course, smd, lesson_idx)
                  IN  (IF L = {} \/ CorruptLessons(course, smd) # {} THEN {Absent} ELSE {})
                          \cup {Val(ld) : ld \in L}
              FromMod(md) ==
                  LET S == SubmodulesByInfo(course, md, submodule_idx)
                  IN  (IF S = {} \/ CorruptSubmodules(course, md) # {} THEN {Absent} ELSE {})
                          \cup UNION {FromSub(smd) : smd \in S}
          IN  (IF M = {} \/ CorruptModules(course) # {} THEN {Absent} ELSE {})
                  \cup UNION {FromMod(md) : md \in M}

-----------------------------------------------------------------------------
(* The lesson record store *)

\* int(x / y) for y > 0: truncation toward zero
TruncDiv(x, y) == IF x >= 0 THEN x \div y ELSE -((-x) \div y)

LessonAt(fs, course_name, ld) == fs[_safe_name(course_name)].lessons[ld]

WriteLesson_EveryLesson(fs, course_name, ld, lesson) ==
    [fs EXCEPT ![_safe_name(course_name)].lessons = [x \in DOMAIN @ |-> lesson]]

\* the files of the lesson directory ld are replaced by those of `lesson`
WriteLesson(fs, course_name, ld, lesson) ==
    [fs EXCEPT ![_safe_name(course_name)].lessons[ld] = lesson]

\* The open(..., "w") calls of one operation are numbered 1, 2, ... in the order
\* the operation makes them.  A fault names the one that raises OSError: either
\* open() itself raises and the file stays as it was, or the file has been
\* truncated when the write raises.  at = 0: no write fails.
NoFault == [at |-> 0, truncates |-> FALSE]
WriteFaults == {[at |-> n, truncates |-> b] : n \in 1..2, b \in BOOLEAN}

\* one open(file, "w") with what is written: k is the video position of a
\* per-video file, 0 otherwise
FileWrite(file, k, content) == [file |-> file, k |-> k, content |-> content]

JsonFiles == {"info", "youtube_videos_json"}
PerVideoFiles == {"video_transcripts", "video_summaries"}

\* the lesson directory after write w succeeded
PutFile(lesson, w) ==
    IF w.file \in PerVideoFiles
    THEN LET files == lesson[w.file]
         IN  [lesson EXCEPT ![w.file] =
                [i \in DOMAIN files \cup {w.k} |-> IF i = w.k THEN w.content ELSE files[i]]]
    ELSE [lesson EXCEPT ![w.file] = Val(w.content)]

\* the lesson directory after write w raised with the file already truncated:
\* an empty text file, an empty JSON file that no longer parses
TruncateFile(lesson, w) ==
    IF w.file \in PerVideoFiles
    THEN PutFile(lesson, [w EXCEPT !.content = <<>>])
    ELSE IF w.file \in JsonFiles
    THEN [lesson EXCEPT ![w.file] = Corrupt]
    ELSE [lesson EXCEPT ![w.file] = Val(<<>>)]

\* the writes, numbered from `first`, made in order until one raises
RECURSIVE ApplyWrites(_, _, _, _)
ApplyWrites(lesson, writes, first, fault) ==
    IF writes = <<>> THEN [lesson |-> lesson, raised |-> FALSE]
    ELSE IF fault.at = first
    THEN [lesson |-> IF fault.truncates THEN TruncateFile(lesson, Head(writes)) ELSE lesson,
          raised |-> TRUE]
    ELSE ApplyWrites(PutFile(lesson, Head(writes)), Tail(writes), first + 1, fault)

\* how the body of an operation ends: a return value, or an exception
Returned(fs, ok) == [fs |-> fs, ok |-> ok, raised |-> FALSE]
Raised(fs) == [fs |-> fs, ok |-> FALSE, raised |-> TRUE]

TryExcept_Reraise(out) == out

\* try: <body> except Exception as e: print(...); return False
TryExcept(out) == IF out.raised THEN Returned(out.fs, FALSE) ELSE out

MarkCompletedInfo_ClearsPlan(concept_info, t) ==
    [concept_info EXCEPT !.completed = TRUE,
                         !.completed_at = IsoFormat(t),
                         !.detailed_plan = Null]

\* concept_info as mark_lesson_completed rewrites it
MarkCompletedInfo(concept_info, t) ==
    [concept_info EXCEPT !.completed = TRUE, !.completed_at = IsoFormat(t)]

\* the try block of mark_lesson_completed, given what _get_lesson_directory returned
MarkLessonCompletedBody(fs, course_name, lesson_dir, t, fault) ==
    IF ~IsVal(lesson_dir) THEN Returned(fs, FALSE)
    ELSE
      LET lesson == LessonAt(fs, course_name, lesson_dir.v)
      IN  IF ~Exists(lesson.info) THEN Returned(fs, FALSE)
          ELSE IF lesson.info = Corrupt THEN Raised(fs)
          ELSE
            LET w == ApplyWrites(lesson,
                        <<FileWrite("info", 0, MarkCompletedInfo(lesson.info.v, t))>>,
                        1, fault)
                after == WriteLesson(fs, course_name, lesson_dir.v, w.lesson)
            IN  IF w.raised THEN Raised(after) ELSE Returned(after, TRUE)

\* CourseStorage.mark_lesson_completed
mark_lesson_completed(fs, course_name, lesson_dir, t, fault) ==
    TryExcept(MarkLessonCompletedBody(fs, course_name, lesson_dir, t, fault))

SaveCodeInfo_FromPrevious(concept_info, t) ==
    LET current_time == IsoFormat(t)
        previous == IF IsVal(concept_info.last_code_update)
                    THEN concept_info.last_code_update ELSE current_time
    IN  [concept_info EXCEPT
            !.first_code_update = IF IsVal(@) THEN @ ELSE current_time,
            !.code_file = Val("student_code.txt"),
            !.last_code_update = current_time,
            !.total_time_minutes =
                Val(TruncDiv(FromIsoFormat(current_time) - FromIsoFormat(previous),
                             SecondsPerMinute))]

\* concept_info as save_lesson_code rewrites it
SaveCodeInfo(concept_info, t) ==
    LET current_time == IsoFormat(t)
        first == IF IsVal(concept_info.first_code_update)
                 THEN concept_info.first_code_update ELSE current_time
    IN  [concept_info EXCEPT
            !.first_code_update = first,
            !.code_file = Val("student_code.txt"),
            !.last_code_update = current_time,
            !.total_time_minutes =
                Val(TruncDiv(FromIsoFormat(current_time) - FromIsoFormat(first),
                             SecondsPerMinute))]

\* the rest of an operation after its own files are written: concept_info.json,
\* if it exists, is loaded, rewritten by Update and written as write number
\* `first`
RewriteInfo(fs, course_name, ld, lesson, Update(_), first, fault) ==
    IF ~Exists(lesson.info) THEN Returned(WriteLesson(fs, course_name, ld, lesson), TRUE)
    ELSE IF lesson.info = Corrupt THEN Raised(WriteLesson(fs, course_name, ld, lesson))
    ELSE
      LET w == ApplyWrites(lesson, <<FileWrite("info", 0, Update(lesson.info.v))>>,
                           first, fault)
          after == WriteLesson(fs, course_name, ld, w.lesson)
      IN  IF w.raised THEN Raised(after) ELSE Returned(after, TRUE)

\* the try block of save_lesson_code, given what _get_lesson_directory returned
SaveLessonCodeBody(fs, course_name, lesson_dir, code_content, t, fault) ==
    IF ~IsVal(lesson_dir) THEN Returned(fs, FALSE)
    ELSE
      LET lesson == LessonAt(fs, course_name, lesson_dir.v)
          w == ApplyWrites(lesson, <<FileWrite("student_code_txt", 0, code_content)>>,
                           1, fault)
          Update(concept_info) == SaveCodeInfo(concept_info, t)
      IN  IF w.raised THEN Raised(WriteLesson(fs, course_name, lesson_dir.v, w.lesson))
          ELSE RewriteInfo(fs, course_name, lesson_dir.v, w.lesson, Update, 2, fault)

\* CourseStorage.save_lesson_code
save_lesson_code(fs, course_name, lesson_dir, code_content, t, fault) ==
    TryExcept(SaveLessonCodeBody(fs, course_name, lesson_dir, code_content, t, fault))

SavePlanInfo_OverAgenda(concept_info, detailed_plan, t) ==
    [concept_info EXCEPT !.completed = TRUE,
                         !.agenda = detailed_plan,
                         !.completed_at = IsoFormat(t)]

SavePlanInfo_NotCompleted(concept_info, detailed_plan, t) ==
    [concept_info EXCEPT !.detailed_plan = Val(detailed_plan)]

\* concept_info as save_detailed_lesson_plan rewrites it
SavePlanInfo(concept_info, detailed_plan, t) ==
    [concept_info EXCEPT !.completed = TRUE,
                         !.detailed_plan = Val(detailed_plan),
                         !.completed_at = IsoFormat(t)]

\* the lesson directory save_detailed_lesson_plan writes into: every directory the
\* call can pick (the first glob match holding concept_info.json, else the first
\* match of the metadata scan), or Absent when it finds none or the scan raises
SaveDetailedPlanTargets(fs, course_name, module_idx, submodule_idx, lesson_idx) ==
    LET dir == _safe_name(course_name)
    IN  IF ~DirExists(fs, dir) THEN {Absent}
        ELSE
          LET course == CourseAt(fs, dir)
              fast == {ld \in GlobLessonPattern(course, module_idx, submodule_idx, lesson_idx) :
                          Exists(course.lessons[ld].info)}
              scan == ScanLessonsByInfo(course, module_idx, submodule_idx, lesson_idx)
          IN  IF fast # {} THEN {Val(ld) : ld \in fast}
              ELSE (IF scan = {} \/ ScanMayRaise(course, module_idx, submodule_idx, lesson_idx)
                    THEN {Absent} ELSE {})
                        \cup {Val(ld) : ld \in scan}

\* the try block of save_detailed_lesson_plan, given the directory it picked
SaveDetailedLessonPlanBody(fs, course_name, lesson_dir, detailed_plan, t, fault) ==
    IF ~IsVal(lesson_dir) THEN Returned(fs, FALSE)
    ELSE
      LET lesson == LessonAt(fs, course_name, lesson_dir.v)
          w == ApplyWrites(lesson, <<FileWrite("detailed_plan_txt", 0, detailed_plan)>>,
                           1, fault)
          Update(concept_info) == SavePlanInfo(concept_info, detailed_plan, t)
      IN  IF w.raised THEN Raised(WriteLesson(fs, course_name, lesson_dir.v, w.lesson))
          ELSE RewriteInfo(fs, course_name, lesson_dir.v, w.lesson, Update, 2, fault)

\* CourseStorage.save_detailed_lesson_plan
save_detailed_lesson_plan(fs, course_name, lesson_dir, detailed_plan, t, fault) ==
    TryExcept(SaveDetailedLessonPlanBody(fs, course_name, lesson_dir, detailed_plan, t, fault))

VideoFileWrites_AllPositions(videos) ==
    [j \in 1..(2 * Len(videos)) |->
        IF j % 2 = 1
        THEN FileWrite("video_transcripts", (j + 1) \div 2, videos[(j + 1) \div 2].transcript)
        ELSE FileWrite("video_summaries", j \div 2, videos[j \div 2].summary)]

\* video_{i+1}_transcript.txt / video_{i+1}_summary.txt, in loop order: written
\* for the videos whose transcript / summary is non-empty
VideoFileWrites(videos) ==
    SelectSeq(VideoFileWrites_AllPositions(videos), LAMBDA w : w.content # <<>>)

SaveVideosInfo_KeepsCount(concept_info, videos) ==
    IF IsVal(concept_info.youtube_videos) THEN concept_info
    ELSE [concept_info EXCEPT !.youtube_videos = Val(Len(videos)),
                              !.youtube_videos_file = Val("youtube_videos.json")]

\* concept_info as save_youtube_videos rewrites it
SaveVideosInfo(concept_info, videos) ==
    [concept_info EXCEPT !.youtube_videos = Val(Len(videos)),
                         !.youtube_videos_file = Val("youtube_videos.json")]

\* the try block of save_youtube_videos, given what _get_lesson_directory returned
SaveYoutubeVideosBody(fs, course_name, lesson_dir, videos, fault) ==
    IF ~IsVal(lesson_dir) THEN Returned(fs, FALSE)
    ELSE
      LET lesson == LessonAt(fs, course_name, lesson_dir.v)
          files == <<FileWrite("youtube_videos_json", 0, videos)>> \o VideoFileWrites(videos)
          w == ApplyWrites(lesson, files, 1, fault)
          Update(concept_info) == SaveVideosInfo(concept_info, videos)
      IN  IF w.raised THEN Raised(WriteLesson(fs, course_name, lesson_dir.v, w.lesson))
          ELSE RewriteInfo(fs, course_name, lesson_dir.v, w.lesson, Update,
                           Len(files) + 1, fault)

\* CourseStorage.save_youtube_videos
save_youtube_videos(fs, course_name, lesson_dir, videos, fault) ==
    TryExcept(SaveYoutubeVideosBody(fs, course_name, lesson_dir, videos, fault))

-----------------------------------------------------------------------------
(* Read operations.  Each is the set of values the call can return in store *)
(* fs; Absent is None.                                                      *)

\* the glob matches holding agenda.txt: the fast path of get_lesson_agenda
\* answers from the first of them
AgendaFastDirs(course, module_idx, submodule_idx, lesson_idx) ==
    {ld \in GlobLessonPattern(course, module_idx, submodule_idx, lesson_idx) :
        IsVal(course.lessons[ld].agenda_txt)}

\* the lesson directory get_lesson_agenda answers from: a glob match holding
\* agenda.txt, else a metadata-scan match
AgendaDirs(course, module_idx, submodule_idx, lesson_idx) ==
    LET fast == AgendaFastDirs(course, module_idx, submodule_idx, lesson_idx)
    IN  IF fast # {} THEN fast
        ELSE ScanLessonsByInfo(course, module_idx, submodule_idx, lesson_idx)

\* CourseStorage.get_lesson_agenda: the fast path returns agenda.txt stripped, the
\* fallback returns the agenda key of concept_info.json as it is, or None when
\* its loops meet a metadata file that does not parse
get_lesson_agenda(fs, course_name, module_idx, submodule_idx, lesson_idx) ==
    LET dir == _safe_name(course_name)
    IN  IF ~DirExists(fs, dir) THEN {Absent}
        ELSE
          LET course == CourseAt(fs, dir)
              fast == AgendaFastDirs(course, module_idx, submodule_idx, lesson_idx)
              scan == ScanLessonsByInfo(course, module_idx, submodule_idx, lesson_idx)
          IN  IF fast # {}
              THEN {Val(Strip(course.lessons[ld].agenda_txt.v)) : ld \in fast}
              ELSE (IF scan = {} \/ ScanMayRaise(course, module_idx, submodule_idx, lesson_idx)
                    THEN {Absent} ELSE {})
                        \cup {Val(course.lessons[ld].info.v.agenda) : ld \in scan}

\* the lesson directory get_detailed_lesson_plan answers from: the glob matches
\* holding detailed_plan.txt, else the metadata-scan matches holding it
DetailedPlanDirs(course, module_idx, submodule_idx, lesson_idx) ==
    LET fast == {ld \in GlobLessonPattern(course, module_idx, submodule_idx, lesson_idx) :
                    IsVal(course.lessons[ld].detailed_plan_txt)}
    IN  IF fast # {} THEN fast
        ELSE {ld \in ScanLessonsByInfo(course, module_idx, submodule_idx, lesson_idx) :
                    IsVal(course.lessons[ld].detailed_plan_txt)}

\* CourseStorage.get_detailed_lesson_plan
get_detailed_lesson_plan(fs, course_name, module_idx, submodule_idx, lesson_idx) ==
    LET dir == _safe_name(course_name)
    IN  IF ~DirExists(fs, dir) THEN {Absent}
        ELSE
          LET course == CourseAt(fs, dir)
              fast == {ld \in GlobLessonPattern(course, module_idx, submodule_idx, lesson_idx) :
                          IsVal(course.lessons[ld].detailed_plan_txt)}
              from == DetailedPlanDirs(course, module_idx, submodule_idx, lesson_idx)
          IN  (IF from = {} \/ (fast = {} /\ ScanMayRaise(course, module_idx, submodule_idx,
                                                          lesson_idx))
               THEN {Absent} ELSE {})
                    \cup {Val(Strip(course.lessons[ld].detailed_plan_txt.v)) : ld \in from}

\* CourseStorage.is_lesson_completed
is_lesson_completed(fs, course_name, module_idx, submodule_idx, lesson_idx) ==
    {IF ~IsVal(lesson_dir) THEN FALSE
     ELSE LET lesson == LessonAt(fs, course_name, lesson_dir.v)
          IN  IF ~IsVal(lesson.info) THEN FALSE ELSE lesson.info.v.completed :
        lesson_dir \in _get_lesson_directory(fs, course_name, module_idx, submodule_idx, lesson_idx)}

\* CourseStorage.get_lesson_code
get_lesson_code(fs, course_name, module_idx, submodule_idx, lesson_idx) ==
    {IF ~IsVal(lesson_dir) THEN Absent
     ELSE LessonAt(fs, course_name, lesson_dir.v).student_code_txt :
        lesson_dir \in _get_lesson_directory(fs, course_name, module_idx, submodule_idx, lesson_idx)}

\* CourseStorage.get_lesson_time_spent
get_lesson_time_spent(fs, course_name, module_idx, submodule_idx, lesson_idx) ==
    {IF ~IsVal(lesson_dir) THEN Absent
     ELSE LET lesson == LessonAt(fs, course_name, lesson_dir.v)
          IN  IF ~IsVal(lesson.info) THEN Absent ELSE lesson.info.v.total_time_minutes :
        lesson_dir \in _get_lesson_directory(fs, course_name, module_idx, submodule_idx, lesson_idx)}

\* CourseStorage.get_youtube_videos
get_youtube_videos(fs, course_name, module_idx, submodule_idx, lesson_idx) ==
    {IF ~IsVal(lesson_dir) THEN Absent
     ELSE LET videos_file == LessonAt(fs, course_name, lesson_dir.v).youtube_videos_json
          IN  IF IsVal(videos_file) THEN videos_file ELSE Absent :
        lesson_dir \in _get_lesson_directory(fs, course_name, module_idx, submodule_idx, lesson_idx)}

\* CourseStorage.has_youtube_videos
has_youtube_videos(fs, course_name, module_idx, submodule_idx, lesson_idx) ==
    {IF ~IsVal(lesson_dir) THEN FALSE
     ELSE Exists(LessonAt(fs, course_name, lesson_dir.v).youtube_videos_json) :
        lesson_dir \in _get_lesson_directory(fs, course_name, module_idx, submodule_idx, lesson_idx)}

\* an exception that leaves the call: the caller gets no return value
Escapes(exception) == [tag |-> "raised", exception |-> exception]

get_course_structure_Guarded(fs, course_name) ==
    LET dir == _safe_name(course_name)
    IN  IF ~DirExists(fs, dir) THEN Absent
        ELSE IF IsVal(CourseAt(fs, dir).manifest) THEN CourseAt(fs, dir).manifest ELSE Absent

\* CourseStorage.get_course_structure: json.load is not inside a try
get_course_structure(fs, course_name) ==
    LET dir == _safe_name(course_name)
    IN  IF ~DirExists(fs, dir) THEN Absent
        ELSE IF ~Exists(CourseAt(fs, dir).manifest) THEN Absent
        ELSE IF CourseAt(fs, dir).manifest = Corrupt THEN Escapes("JSONDecodeError")
        ELSE CourseAt(fs, dir).manifest

-----------------------------------------------------------------------------
(* The progress aggregator *)

WalkedLessons_OwnMetadata(course) ==
    {ld \in DOMAIN course.lessons :
        StartsWith(ld[3], LessonPrefix) /\ IsVal(course.lessons[ld].info)}

\* the lesson directories the three nested loops of get_course_progress reach:
\* a directory without its metadata file is skipped with everything below it
WalkedLessons(course) ==
    LET modules == {md \in DOMAIN course.secs :
                        StartsWith(md, ModulePrefix) /\ IsVal(course.secs[md].info)}
        submodules == {smd \in DOMAIN course.subs :
                        /\ smd[1] \in modules
                        /\ StartsWith(smd[2], SubmodulePrefix)
                        /\ IsVal(course.subs[smd].info)}
    IN  {ld \in DOMAIN course.lessons :
            /\ SubSeq(ld, 1, 2) \in submodules
            /\ StartsWith(ld[3], LessonPrefix)
            /\ IsVal(course.lessons[ld].info)}

\* lesson_time = concept_info.get("total_time_minutes", 0); added if truthy
LessonTime(concept_info) ==
    IF IsVal(concept_info.total_time_minutes) THEN concept_info.total_time_minutes.v ELSE 0

\* total_time_minutes summed over the lessons S
RECURSIVE SumLessonTime(_, _)
SumLessonTime(course, S) ==
    IF S = {} THEN 0
    ELSE LET ld == CHOOSE x \in S : TRUE
         IN  LessonTime(course.lessons[ld].info.v) + SumLessonTime(course, S \ {ld})

\* the walk reaches a metadata file that exists and does not parse
WalkRaises(course) ==
    \/ CorruptModules(course) # {}
    \/ \E md \in DOMAIN course.secs :
        /\ StartsWith(md, ModulePrefix) /\ IsVal(course.secs[md].info)
        /\ \/ CorruptSubmodules(course, md) # {}
           \/ \E smd \in DOMAIN course.subs :
                /\ smd[1] = md /\ StartsWith(smd[2], SubmodulePrefix)
                /\ IsVal(course.subs[smd].info)
                /\ CorruptLessons(course, smd) # {}

\* the characters of directory names in code-point order
CodePointOrder ==
    <<" ", "-", "0", "1", "2", "3", "4", "5", "6", "7", "8", "9",
      "A", "B", "C", "D", "E", "F", "G", "H", "I", "J", "K", "L", "M",
      "N", "O", "P", "Q", "R", "S", "T", "U", "V", "W", "X", "Y", "Z", "_",
      "a", "b", "c", "d", "e", "f", "g", "h", "i", "j", "k", "l", "m",
      "n", "o", "p", "q", "r", "s", "t", "u", "v", "w", "x", "y", "z">>

CodePoint(c) == CHOOSE i \in 1..Len(CodePointOrder) : CodePointOrder[i] = c

\* a <= b for directory names, as sorted() orders them
NameLeq(a, b) ==
    \E i \in 1..(Len(a) + 1) :
        /\ \A m \in 1..(i - 1) : m <= Len(b) /\ a[m] = b[m]
        /\ \/ i = Len(a) + 1
           \/ i <= Len(b) /\ CodePoint(a[i]) < CodePoint(b[i])

\* sorted(parent.glob(...)): the paths S of one parent, ordered by last component
RECURSIVE SortedDirs(_)
SortedDirs(S) ==
    IF S = {} THEN <<>>
    ELSE LET first == CHOOSE d \in S : \A e \in S : NameLeq(d[Len(d)], e[Len(e)])
         IN  <<first>> \o SortedDirs(S \ {first})

\* the entry of one lesson in the "lessons" list of the report
LessonProgress(concept_info) ==
    [name |-> concept_info.name,
     index |-> concept_info.index,
     completed |-> concept_info.completed,
     agenda |-> concept_info.agenda,
     time_spent_minutes |-> LessonTime(concept_info)]

\* the entry of one submodule: its lessons that have a metadata file, sorted
SubmoduleProgress(course, smd) ==
    LET lessons == SortedDirs({ld \in DOMAIN course.lessons :
                        /\ SubSeq(ld, 1, 2) = smd
                        /\ StartsWith(ld[3], LessonPrefix)
                        /\ IsVal(course.lessons[ld].info)})
    IN  [name |-> course.subs[smd].info.v.name,
         index |-> course.subs[smd].info.v.index,
         lessons |-> [i \in 1..Len(lessons) |->
                        LessonProgress(course.lessons[lessons[i]].info.v)]]

\* the entry of one module: its submodules that have a metadata file, sorted
ModuleProgress(course, md) ==
    LET submodules == SortedDirs({smd \in DOMAIN course.subs :
                        /\ smd[1] = md
                        /\ StartsWith(smd[2], SubmodulePrefix)
                        /\ IsVal(course.subs[smd].info)})
    IN  [name |-> course.secs[md].info.v.name,
         index |-> course.secs[md].info.v.index,
         submodules |-> [i \in 1..Len(submodules) |->
                            SubmoduleProgress(course, submodules[i])]]

\* progress["modules"]
ModulesProgress(course) ==
    LET modules == SortedDirs({<<md>> : md \in {d \in DOMAIN course.secs :
                        StartsWith(d, ModulePrefix) /\ IsVal(course.secs[d].info)}})
    IN  [i \in 1..Len(modules) |-> ModuleProgress(course, modules[i][1])]

CompletionPercentage_NoGuard(completed_lessons, total_lessons) ==
    [num |-> completed_lessons * PercentScale, den |-> total_lessons]

\* (completed_lessons / total_lessons * 100) if total_lessons > 0 else 0,
\* as the exact fraction num / den
CompletionPercentage(completed_lessons, total_lessons) ==
    IF total_lessons > 0
    THEN [num |-> completed_lessons * PercentScale, den |-> total_lessons]
    ELSE [num |-> 0, den |-> 1]

CountCompleted_HasPlan(course, walked) ==
    Cardinality({ld \in walked : IsVal(course.lessons[ld].info.v.detailed_plan)})

\* completed_lessons: the walked lessons with concept_info.get("completed", False)
CountCompleted(course, walked) ==
    Cardinality({ld \in walked : course.lessons[ld].info.v.completed})

\* the report of a walk that met no exception
ProgressReport(course_name, course) ==
    LET walked == WalkedLessons(course)
        total_lessons == Cardinality(walked)
        completed_lessons == CountCompleted(course, walked)
    IN  [course_name |-> course_name,
         total_lessons |-> total_lessons,
         completed_lessons |-> completed_lessons,
         total_time_minutes |-> SumLessonTime(course, walked),
         modules |-> ModulesProgress(course),
         completion_percentage |->
              CompletionPercentage(completed_lessons, total_lessons)]

get_course_progress_NoMissingCheck(fs, course_name) ==
    LET dir == _safe_name(course_name)
    IN  ProgressReport(course_name, IF dir \in DOMAIN fs THEN fs[dir] ELSE EmptyCourseDir)

get_course_progress_Guarded(fs, course_name) ==
    LET dir == _safe_name(course_name)
    IN  IF ~DirExists(fs, dir) THEN [error |-> "Course not found"]
        ELSE IF WalkRaises(CourseAt(fs, dir)) THEN [error |-> "Course not found"]
        ELSE ProgressReport(course_name, CourseAt(fs, dir))

\* CourseStorage.get_course_progress: no try around the walk, so a metadata file
\* that does not parse ends the call with the exception
get_course_progress(fs, course_name) ==
    LET dir == _safe_name(course_name)
    IN  IF ~DirExists(fs, dir) THEN [error |-> "Course not found"]
        ELSE IF WalkRaises(CourseAt(fs, dir)) THEN Escapes("JSONDecodeError")
        ELSE ProgressReport(course_name, CourseAt(fs, dir))

-----------------------------------------------------------------------------
(* Inputs of the calls *)

Idx == 1..MaxIdx
Coords == Idx \X Idx \X Idx

Video1 == [title |-> <<"v", "1">>, transcript |-> <<"t", "1">>, summary |-> <<"s", "1">>]
Video2 == [title |-> <<"v", "2">>, transcript |-> <<>>, summary |-> <<"s", "2">>]

\* the arguments the calls of a behaviour are made with
PlanTexts == {<<" ", "Q", "\n">>}
CodeTexts == {<<"x">>}
VideoLists == {<<Video1, Video2>>, <<Video2>>}

\* the arguments a call is tried with in each reachable state
AnyPlanTexts == PlanTexts \cup {<<>>, <<"P">>}
AnyCodeTexts == CodeTexts \cup {<<>>, <<"y", "\n">>}
AnyVideoLists == VideoLists \cup {<<>>, <<Video1>>}
AnyCoords == Coords \cup {<<SectionCap, SubsectionCap, ConceptCap>>,
                          <<SectionCap, SubsectionCap, ConceptCap + 1>>,
                          <<SectionCap + 1, 1, 1>>,
                          <<0, 1, 1>>,
                          <<1, 1, MaxIdx + 1>>}

\* names an outside rename gives a lesson directory
RenameTargets ==
    {<<"l", "e", "s", "s", "o", "n", "_", "0", "3", "_", "M">>,
     <<"l", "e", "s", "s", "o", "n", "_", "0", "1", "_", "M">>,
     <<"a", "r", "c", "h", "i", "v", "e", "d">>}

-----------------------------------------------------------------------------
(* The state machine *)

NoCall ==
    [op |-> "none", course |-> <<>>, coord |-> <<0, 0, 0>>, ok |-> FALSE, nth |-> 0,
     replaced |-> FALSE, hadProgress |-> FALSE, otherDoc |-> FALSE,
     raised |-> FALSE, at |-> 0, fault |-> NoCreateFault, seen |-> {},
     overlapped |-> FALSE]

\* what the last call was and returned.  A call that returned False leaves only
\* its name; nth counts the successful calls of the same operation on the same
\* coordinate made in a row
Call(op, course_name, coord, ok) ==
    IF ~ok THEN [NoCall EXCEPT !.op = op]
    ELSE [NoCall EXCEPT
            !.op = op, !.course = course_name, !.coord = coord, !.ok = TRUE,
            !.nth = IF ret.op = op /\ ret.course = course_name /\ ret.coord = coord
                    THEN ret.nth + 1 ELSE 1]

\* a lesson directory that holds more than create_course_structure wrote
HasProgress(lesson) ==
    \/ IsVal(lesson.info) /\ lesson.info.v.completed
    \/ IsVal(lesson.info) /\ IsVal(lesson.info.v.first_code_update)
    \/ IsVal(lesson.detailed_plan_txt)
    \/ IsVal(lesson.student_code_txt)
    \/ IsVal(lesson.youtube_videos_json)

Init ==
    /\ store = <<>>
    /\ now = 0
    /\ given = <<>>
    /\ ret = NoCall
    /\ used = [calls |-> 0, renames |-> 0, damages |-> 0, faults |-> 0]
    /\ inflight = <<>>

\* the clock advances between calls; the first create_course_structure is taken
\* as time 0
Tick ==
    /\ store # <<>>
    /\ now < MaxTicks * TickSeconds
    /\ now' = now + TickSeconds
    /\ UNCHANGED <<store, given, ret, used, inflight>>

\* what a behaviour has spent of its budget of MaxCalls: one for a call that
\* changed the store, for a rename and for a damaged file, two for a write fault
BudgetUsed == used.calls + used.renames + used.damages + 2 * used.faults

\* no call is in flight: the next call begins after the last one returned
Quiescent == inflight = <<>>

\* the behaviour may make another call that changes the store
BudgetLeft == Quiescent /\ BudgetUsed < MaxCalls

\* the behaviour may meet another outside damage
DamageLeft == used.damages + used.faults < MaxDamages /\ BudgetLeft

\* the behaviour may meet another write fault
FaultLeft == used.damages + used.faults < MaxDamages /\ BudgetUsed + 2 <= MaxCalls

\* create_course_structure called with one of the documents `documents`
CreateCourseStructureOf(documents) ==
    \E course_name \in CourseNames, course_data \in documents :
        LET dir == _safe_name(course_name)
        IN  /\ BudgetLeft
            /\ store' = CreateCourseStructureFs(store, course_name, course_data, now)
            /\ given' = [d \in DOMAIN given \cup {dir} |->
                            IF d = dir THEN course_data ELSE given[d]]
            /\ ret' = [NoCall EXCEPT
                        !.op = "create_course_structure",
                        !.course = course_name,
                        !.ok = TRUE,
                        !.nth = 1,
                        !.replaced = (dir \in DOMAIN store),
                        !.otherDoc = (dir \in DOMAIN given /\ given[dir] # course_data),
                        !.hadProgress =
                            /\ dir \in DOMAIN store
                            /\ \E ld \in DOMAIN store[dir].lessons :
                                    HasProgress(store[dir].lessons[ld])]
            /\ used' = [used EXCEPT !.calls = @ + 1]
            /\ UNCHANGED <<now, inflight>>

CreateCourseStructure == CreateCourseStructureOf(Documents)


\* a call that returned False and changed nothing: only the caller's view changes
ReturnedFalse(op) ==
    /\ Quiescent
    /\ ret' = Call(op, <<>>, <<0, 0, 0>>, FALSE)
    /\ UNCHANGED <<store, now, given, used, inflight>>

MarkLessonCompleted ==
    \/ /\ BudgetLeft
       /\ \E course_name \in LookupNames, k \in Coords :
            \E lesson_dir \in _get_lesson_directory(store, course_name, k[1], k[2], k[3]) :
                LET out == mark_lesson_completed(store, course_name, lesson_dir, now, NoFault)
                IN  /\ out.ok
                    /\ store' = out.fs
                    /\ ret' = Call("mark_lesson_completed", course_name, k, TRUE)
                    /\ used' = [used EXCEPT !.calls = @ + 1]
                    /\ UNCHANGED <<now, given, inflight>>
    \/ IF \E course_name \in LookupNames, k \in Coords :
               \E lesson_dir \in _get_lesson_directory(store, course_name, k[1], k[2], k[3]) :
                   mark_lesson_completed(store, course_name, lesson_dir, now, NoFault) = Returned(store, FALSE)
       THEN ReturnedFalse("mark_lesson_completed")
       ELSE FALSE

SaveLessonCode ==
    \/ /\ BudgetLeft
       /\ \E course_name \in LookupNames, k \in Coords, code_content \in CodeTexts :
            \E lesson_dir \in _get_lesson_directory(store, course_name, k[1], k[2], k[3]) :
                LET out == save_lesson_code(store, course_name, lesson_dir, code_content, now, NoFault)
                IN  /\ out.ok
                    /\ store' = out.fs
                    /\ ret' = Call("save_lesson_code", course_name, k, TRUE)
                    /\ used' = [used EXCEPT !.calls = @ + 1]
                    /\ UNCHANGED <<now, given, inflight>>
    \/ IF \E course_name \in LookupNames, k \in Coords, code_content \in CodeTexts :
               \E lesson_dir \in _get_lesson_directory(store, course_name, k[1], k[2], k[3]) :
                   save_lesson_code(store, course_name, lesson_dir, code_content, now, NoFault) = Returned(store, FALSE)
       THEN ReturnedFalse("save_lesson_code")
       ELSE FALSE

SaveDetailedLessonPlan ==
    \/ /\ BudgetLeft
       /\ \E course_name \in LookupNames, k \in Coords, detailed_plan \in PlanTexts :
            \E lesson_dir \in SaveDetailedPlanTargets(store, course_name, k[1], k[2], k[3]) :
                LET out == save_detailed_lesson_plan(store, course_name, lesson_dir,
                                                     detailed_plan, now, NoFault)
                IN  /\ out.ok
                    /\ store' = out.fs
                    /\ ret' = Call("save_detailed_lesson_plan", course_name, k, TRUE)
                    /\ used' = [used EXCEPT !.calls = @ + 1]
                    /\ UNCHANGED <<now, given, inflight>>
    \/ IF \E course_name \in LookupNames, k \in Coords, detailed_plan \in PlanTexts :
               \E lesson_dir \in SaveDetailedPlanTargets(store, course_name, k[1], k[2], k[3]) :
                   save_detailed_lesson_plan(store, course_name, lesson_dir,
                                             detailed_plan, now, NoFault) = Returned(store, FALSE)
       THEN ReturnedFalse("save_detailed_lesson_plan")
       ELSE FALSE

SaveYoutubeVideos ==
    \/ /\ BudgetLeft
       /\ \E course_name \in LookupNames, k \in Coords, videos \in VideoLists :
            \E lesson_dir \in _get_lesson_directory(store, course_name, k[1], k[2], k[3]) :
                LET out == save_youtube_videos(store, course_name, lesson_dir, videos, NoFault)
                IN  /\ out.ok
                    /\ store' = out.fs
                    /\ ret' = Call("save_youtube_videos", course_name, k, TRUE)
                    /\ used' = [used EXCEPT !.calls = @ + 1]
                    /\ UNCHANGED <<now, given, inflight>>
    \/ IF \E course_name \in LookupNames, k \in Coords, videos \in VideoLists :
               \E lesson_dir \in _get_lesson_directory(store, course_name, k[1], k[2], k[3]) :
                   save_youtube_videos(store, course_name, lesson_dir, videos, NoFault) = Returned(store, FALSE)
       THEN ReturnedFalse("save_youtube_videos")
       ELSE FALSE

\* outside the program: a lesson directory is renamed, its files untouched
RenameLesson ==
    \E dir \in DOMAIN store :
        \E ld \in DOMAIN store[dir].lessons, name \in RenameTargets :
            LET moved == <<ld[1], ld[2], name>>
                lessons == store[dir].lessons
            IN  /\ used.renames < MaxRenames
                /\ BudgetLeft
                /\ moved \notin DOMAIN lessons
                /\ store' = [store EXCEPT ![dir].lessons =
                                [d \in (DOMAIN lessons \ {ld}) \cup {moved} |->
                                    IF d = moved THEN lessons[ld] ELSE lessons[d]]]
                /\ used' = [used EXCEPT !.renames = @ + 1]
                /\ UNCHANGED <<now, given, ret, inflight>>

\* the write faults a call can meet, NoFault among them
AnyFaults == {NoFault} \cup WriteFaults

\* write faults and outside damages share one budget
FaultsLeft == IF FaultLeft THEN AnyFaults ELSE {NoFault}

\* the metadata files of a course directory: the manifest, and section_info.json,
\* subsection_info.json, concept_info.json by the path of their directory
MetadataFiles(course) ==
    {<<>>} \cup {<<md>> : md \in DOMAIN course.secs}
        \cup DOMAIN course.subs \cup DOMAIN course.lessons

\* the content of metadata file `path`
MetadataAt(course, path) ==
    IF Len(path) = 0 THEN course.manifest
    ELSE IF Len(path) = 1 THEN course.secs[path[1]].info
    ELSE IF Len(path) = 2 THEN course.subs[path].info
    ELSE course.lessons[path].info

\* the course directory with metadata file `path` replaced by `content`
WithMetadata(course, path, content) ==
    IF Len(path) = 0 THEN [course EXCEPT !.manifest = content]
    ELSE IF Len(path) = 1 THEN [course EXCEPT !.secs[path[1]].info = content]
    ELSE IF Len(path) = 2 THEN [course EXCEPT !.subs[path].info = content]
    ELSE [course EXCEPT !.lessons[path].info = content]

\* outside the program (a crash in mid-write, an operator's hand): a metadata
\* file is deleted, or left with content that is not JSON
DamageMetadata ==
    \E dir \in DOMAIN store :
        \E path \in MetadataFiles(store[dir]), content \in {Absent, Corrupt} :
            /\ DamageLeft
            /\ IsVal(MetadataAt(store[dir], path))
            /\ store' = [store EXCEPT ![dir] = WithMetadata(@, path, content)]
            /\ used' = [used EXCEPT !.damages = @ + 1]
            /\ UNCHANGED <<now, given, ret, inflight>>

\* the budget after a call that met `fault`
UsedAfter(fault) ==
    IF fault = NoFault THEN [used EXCEPT !.calls = @ + 1]
    ELSE [used EXCEPT !.faults = @ + 1]

\* a call that returned False after it had changed the store: it met a write
\* fault, or a metadata file damaged before
ReturnedFalseMidway(op, out) ==
    /\ ~out.ok
    /\ out.fs # store
    /\ store' = out.fs
    /\ ret' = Call(op, <<>>, <<0, 0, 0>>, FALSE)
    /\ UNCHANGED <<now, given, inflight>>

MarkLessonCompletedFails ==
    /\ BudgetLeft
    /\ \E course_name \in CourseNames, k \in Coords, fault \in FaultsLeft :
        \E lesson_dir \in _get_lesson_directory(store, course_name, k[1], k[2], k[3]) :
            /\ ReturnedFalseMidway("mark_lesson_completed",
                    mark_lesson_completed(store, course_name, lesson_dir, now, fault))
            /\ used' = UsedAfter(fault)

SaveLessonCodeFails ==
    /\ BudgetLeft
    /\ \E course_name \in CourseNames, k \in Coords, code_content \in CodeTexts,
          fault \in FaultsLeft :
        \E lesson_dir \in _get_lesson_directory(store, course_name, k[1], k[2], k[3]) :
            /\ ReturnedFalseMidway("save_lesson_code",
                    save_lesson_code(store, course_name, lesson_dir, code_content, now, fault))
            /\ used' = UsedAfter(fault)

SaveDetailedLessonPlanFails ==
    /\ BudgetLeft
    /\ \E course_name \in CourseNames, k \in Coords, detailed_plan \in PlanTexts,
          fault \in FaultsLeft :
        \E lesson_dir \in SaveDetailedPlanTargets(store, course_name, k[1], k[2], k[3]) :
            /\ ReturnedFalseMidway("save_detailed_lesson_plan",
                    save_detailed_lesson_plan(store, course_name, lesson_dir,
                                              detailed_plan, now, fault))
            /\ used' = UsedAfter(fault)

SaveYoutubeVideosFails ==
    /\ BudgetLeft
    /\ \E course_name \in CourseNames, k \in Coords, videos \in VideoLists,
          fault \in FaultsLeft :
        \E lesson_dir \in _get_lesson_directory(store, course_name, k[1], k[2], k[3]) :
            /\ ReturnedFalseMidway("save_youtube_videos",
                    save_youtube_videos(store, course_name, lesson_dir, videos, fault))
            /\ used' = UsedAfter(fault)

\* create_course_structure ends with an exception: an I/O error at one of its
\* steps, or a document with a node that lacks "name" or "agenda"
CreateCourseStructureFails ==
    \E course_name \in CourseNames, course_data \in SmallDocuments \cup BrokenDocuments :
        \E fault \in {NoCreateFault} \cup CreateFaults(course_data) :
            LET dir == _safe_name(course_name)
                out == create_course_structure(store, course_name, course_data, now, fault)
            IN  /\ Quiescent
                /\ FaultLeft
                /\ out.raised
                /\ store' = out.fs
                /\ given' = [d \in DOMAIN given \cup {dir} |->
                                IF d = dir THEN course_data ELSE given[d]]
                /\ ret' = [NoCall EXCEPT
                            !.op = "create_course_structure",
                            !.course = course_name,
                            !.raised = TRUE,
                            !.at = now,
                            !.fault = fault,
                            !.replaced = (dir \in DOMAIN store),
                            !.hadProgress =
                                /\ dir \in DOMAIN store
                                /\ \E ld \in DOMAIN store[dir].lessons :
                                        HasProgress(store[dir].lessons[ld])]
                /\ used' = [used EXCEPT !.faults = @ + 1]
                /\ UNCHANGED <<now, inflight>>

-----------------------------------------------------------------------------
(* Overlapping calls.  A mutation is not atomic: it locates the lesson, writes *)
(* its own files, loads concept_info.json, and later dumps its changed copy.   *)
(* Nothing locks the file between the load and the dump.                       *)

MutationNames ==
    {"mark_lesson_completed", "save_lesson_code", "save_detailed_lesson_plan",
     "save_youtube_videos"}

\* the arguments a mutation is called with besides the coordinate
ArgsOf(op) ==
    CASE op = "mark_lesson_completed" -> {<<>>}
      [] op = "save_lesson_code" -> CodeTexts
      [] op = "save_detailed_lesson_plan" -> PlanTexts
      [] op = "save_youtube_videos" -> VideoLists

\* the files a call writes before it loads concept_info.json
OwnWrites(c) ==
    CASE c.op = "mark_lesson_completed" -> <<>>
      [] c.op = "save_lesson_code" -> <<FileWrite("student_code_txt", 0, c.arg)>>
      [] c.op = "save_detailed_lesson_plan" -> <<FileWrite("detailed_plan_txt", 0, c.arg)>>
      [] c.op = "save_youtube_videos" ->
            <<FileWrite("youtube_videos_json", 0, c.arg)>> \o VideoFileWrites(c.arg)

UpdateOf_Unmerged(c, concept_info) ==
    LET blank == [concept_info EXCEPT !.completed = FALSE, !.detailed_plan = Null,
                                      !.first_code_update = Absent,
                                      !.youtube_videos = Absent]
    IN  CASE c.op = "mark_lesson_completed" -> MarkCompletedInfo(blank, c.t)
          [] c.op = "save_lesson_code" -> SaveCodeInfo(blank, c.t)
          [] c.op = "save_detailed_lesson_plan" -> SavePlanInfo(blank, c.arg, c.t)
          [] c.op = "save_youtube_videos" -> SaveVideosInfo(blank, c.arg)

\* the concept_info a call dumps, from the copy it loaded
UpdateOf(c, concept_info) ==
    CASE c.op = "mark_lesson_completed" -> MarkCompletedInfo(concept_info, c.t)
      [] c.op = "save_lesson_code" -> SaveCodeInfo(concept_info, c.t)
      [] c.op = "save_detailed_lesson_plan" -> SavePlanInfo(concept_info, c.arg, c.t)
      [] c.op = "save_youtube_videos" -> SaveVideosInfo(concept_info, c.arg)

\* the sequence without its i-th element
Without(seq, i) == SubSeq(seq, 1, i - 1) \o SubSeq(seq, i + 1, Len(seq))

\* a mutation begins: it has located the lesson directory
BeginCall ==
    \E op \in MutationNames, course_name \in CourseNames, k \in Coords :
        \E arg \in ArgsOf(op) :
            \E lesson_dir \in _get_lesson_directory(store, course_name, k[1], k[2], k[3]) :
                /\ BudgetUsed < MaxCalls
                /\ Len(inflight) < MaxInflight
                /\ IsVal(lesson_dir)
                /\ inflight' =
                    [i \in 1..Len(inflight) |->
                        [inflight[i] EXCEPT !.overlapped = TRUE]]
                    \o <<[op |-> op, course |-> course_name, coord |-> k,
                          lesson_dir |-> lesson_dir.v, arg |-> arg, t |-> now,
                          pc |-> "located", loaded |-> Absent,
                          overlapped |-> inflight # <<>>]>>
                /\ used' = [used EXCEPT !.calls = @ + 1]
                /\ UNCHANGED <<store, now, given, ret>>

\* a call in flight writes its own files and loads concept_info.json
LoadInfo ==
    \E i \in 1..Len(inflight) :
        LET c == inflight[i]
            lesson == LessonAt(store, c.course, c.lesson_dir)
            w == ApplyWrites(lesson, OwnWrites(c), 1, NoFault)
        IN  /\ c.pc = "located"
            /\ IsVal(lesson.info)
            /\ store' = WriteLesson(store, c.course, c.lesson_dir, w.lesson)
            /\ inflight' = [inflight EXCEPT ![i].pc = "loaded", ![i].loaded = lesson.info]
            /\ UNCHANGED <<now, given, ret, used>>

\* a call in flight dumps its changed copy of concept_info.json and returns True
DumpInfo ==
    \E i \in 1..Len(inflight) :
        LET c == inflight[i]
            lesson == LessonAt(store, c.course, c.lesson_dir)
        IN  /\ c.pc = "loaded"
            /\ store' = WriteLesson(store, c.course, c.lesson_dir,
                            [lesson EXCEPT !.info = Val(UpdateOf(c, c.loaded.v))])
            /\ inflight' = Without(inflight, i)
            /\ ret' = [Call(c.op, c.course, c.coord, TRUE) EXCEPT
                        !.seen = ret.seen \cup
                                    {[op |-> c.op, course |-> c.course, coord |-> c.coord]},
                        !.overlapped = ret.overlapped \/ c.overlapped]
            /\ UNCHANGED <<now, given, used>>

-----------------------------------------------------------------------------
(* A materialization with readers.  create_course_structure deletes the old    *)
(* directory, makes the new one and writes the tree node by node; a read of    *)
(* the same course can run between any two of these steps, or between the      *)
(* opening of a file for writing, which empties it, and the dump into it.      *)

\* the step a call in flight makes next
NextStepOf(c) ==
    CHOOSE st \in CreateSteps(c.doc) \ c.done :
        \A other \in CreateSteps(c.doc) \ c.done : Rank(st) <= Rank(other)

CreateDone_AfterManifest(c) == Step("manifest", <<>>) \in c.done

\* the loops have ended
CreateDone(c) == c.done = CreateSteps(c.doc)

\* the store after the call in flight made step `st`
AfterStep(fs, c, st) ==
    LET dir == _safe_name(c.course)
    IN  IF st = Step("rmtree", <<>>)
        THEN (IF DirExists(fs, dir) THEN RmTree(fs, dir) ELSE fs)
        ELSE IF st = Step("mkdir", <<>>) THEN MkDir(fs, dir)
        ELSE [fs EXCEPT ![dir] = WriteTreeSteps(fs[dir], c.doc, c.t, c.done \cup {st})]

\* the stores a reader can meet while the call is in flight: the store between
\* two steps, or the store with the file of the next step opened and still empty
ViewsDuring(fs, c) ==
    LET dir == _safe_name(c.course)
        st == NextStepOf(c)
    IN  IF CreateDone(c) \/ st.kind \notin {"manifest", "info", "agenda"} THEN {fs}
        ELSE {fs, [fs EXCEPT ![dir] = TruncateTreeFile(fs[dir], c.doc, st)]}

\* what a get_course_progress of the course in flight shows its caller
ProgressSeen(c, report) ==
    IF Step("rmtree", <<>>) \notin c.done THEN "old tree"
    ELSE IF "error" \in DOMAIN report THEN "absent"
    ELSE IF "tag" \in DOMAIN report THEN "raised"
    ELSE IF report.total_lessons < Cardinality(ConceptCoords(c.doc)) THEN "partial"
    ELSE "complete"

\* what a coordinate lookup of the course in flight shows its caller
LookupSeen(c, lesson_dir) ==
    IF Step("rmtree", <<>>) \notin c.done THEN "old tree"
    ELSE IF IsVal(lesson_dir) THEN "located"
    ELSE "none"

\* what a reader is shown only while a materialization is in flight
Transient == {"absent", "raised", "partial", "none"}

BeginCreate ==
    \E course_name \in CourseNames, course_data \in SmallDocuments :
        LET dir == _safe_name(course_name)
        IN  /\ BudgetLeft
            /\ inflight' =
                <<[op |-> "create_course_structure", course |-> course_name,
                   doc |-> course_data, t |-> now, done |-> {}, seen |-> {},
                   replaced |-> (dir \in DOMAIN store),
                   hadProgress |->
                        /\ dir \in DOMAIN store
                        /\ \E ld \in DOMAIN store[dir].lessons :
                                HasProgress(store[dir].lessons[ld])]>>
            /\ given' = [d \in DOMAIN given \cup {dir} |->
                            IF d = dir THEN course_data ELSE given[d]]
            /\ used' = [used EXCEPT !.calls = @ + 1]
            /\ UNCHANGED <<store, now, ret>>

CreateStep ==
    /\ inflight # <<>>
    /\ ~CreateDone(inflight[1])
    /\ LET c == inflight[1]
           st == NextStepOf(c)
       IN  /\ store' = AfterStep(store, c, st)
           /\ inflight' = [inflight EXCEPT ![1].done = @ \cup {st}]
    /\ UNCHANGED <<now, given, ret, used>>

EndCreate ==
    /\ inflight # <<>>
    /\ CreateDone(inflight[1])
    /\ LET c == inflight[1]
       IN  ret' = [NoCall EXCEPT
                    !.op = "create_course_structure",
                    !.course = c.course,
                    !.ok = TRUE,
                    !.nth = 1,
                    !.at = c.t,
                    !.replaced = c.replaced,
                    !.hadProgress = c.hadProgress,
                    !.seen = c.seen]
    /\ inflight' = <<>>
    /\ UNCHANGED <<store, now, given, used>>

\* a get_course_progress of the course that runs while the call is in flight
ReadProgressDuring ==
    /\ inflight # <<>>
    /\ LET c == inflight[1]
       IN  \E view \in ViewsDuring(store, c) :
            LET shown == ProgressSeen(c, get_course_progress(view, c.course))
            IN  /\ shown \in Transient \ c.seen
                /\ inflight' = [inflight EXCEPT ![1].seen = @ \cup {shown}]
    /\ UNCHANGED <<store, now, given, ret, used>>

\* a coordinate lookup of a lesson of the new document that runs while the call
\* is in flight
LookupDuring ==
    /\ inflight # <<>>
    /\ LET c == inflight[1]
       IN  \E view \in ViewsDuring(store, c), k \in ConceptCoords(c.doc) :
            \E lesson_dir \in _get_lesson_directory(view, c.course, k[1], k[2], k[3]) :
                LET shown == LookupSeen(c, lesson_dir)
                IN  /\ shown \in Transient \ c.seen
                    /\ inflight' = [inflight EXCEPT ![1].seen = @ \cup {shown}]
    /\ UNCHANGED <<store, now, given, ret, used>>

-----------------------------------------------------------------------------
(* Course names.  A course is addressed by any string; its directory is the   *)
(* sanitized string, and list_courses gives the directory names back.         *)

\* CourseStorage.list_courses: the names of the directories of base_dir that hold
\* course_structure.json
list_courses(fs) == {d \in DOMAIN fs \ {<<>>} : Exists(fs[d].manifest)}

\* a name with a trailing space: the directory of DataStructuresName
TrailingSpaceName == DataStructuresName \o <<" ">>
\* a name the sanitizer empties
EmptyTokenName == <<"!", "?">>
\* a name longer than NameMaxLen with a space at position NameMaxLen
LongName == [i \in 1..(NameMaxLen - 1) |-> "a"] \o <<" ", "b">>

NamedCourses == {DataStructuresName, TrailingSpaceName, EmptyTokenName, LongName}

CreateCourseStructureNamed ==
    \E course_name \in NamedCourses, course_data \in SmallDocuments :
        LET dir == _safe_name(course_name)
        IN  /\ BudgetLeft
            /\ store' = CreateCourseStructureFs(store, course_name, course_data, now)
            /\ given' = [d \in DOMAIN given \cup {dir} |->
                            IF d = dir THEN course_data ELSE given[d]]
            /\ ret' = [NoCall EXCEPT
                        !.op = "create_course_structure",
                        !.course = course_name,
                        !.ok = TRUE,
                        !.nth = 1,
                        !.at = now,
                        !.replaced = DirExists(store, dir),
                        !.seen = DOMAIN store]
            /\ used' = [used EXCEPT !.calls = @ + 1]
            /\ UNCHANGED <<now, inflight>>

\* mark_lesson_completed called with a name list_courses returned
MarkLessonCompletedListed ==
    \E course_name \in list_courses(store), k \in Coords :
        \E lesson_dir \in _get_lesson_directory(store, course_name, k[1], k[2], k[3]) :
            LET out == mark_lesson_completed(store, course_name, lesson_dir, now, NoFault)
            IN  /\ BudgetLeft
                /\ out.ok
                /\ store' = out.fs
                /\ ret' = Call("mark_lesson_completed", course_name, k, TRUE)
                /\ used' = [used EXCEPT !.calls = @ + 1]
                /\ UNCHANGED <<now, given, inflight>>

-----------------------------------------------------------------------------
(* Partial writes *)

\* a lesson directory is left without agenda.txt: a crash between the two writes
\* of a lesson, or the file removed from outside
LoseAgendaFile ==
    \E dir \in DOMAIN store :
        \E ld \in DOMAIN store[dir].lessons :
            /\ BudgetLeft
            /\ Exists(store[dir].lessons[ld].agenda_txt)
            /\ store' = [store EXCEPT ![dir].lessons[ld].agenda_txt = Absent]
            /\ used' = [used EXCEPT !.calls = @ + 1]
            /\ UNCHANGED <<now, given, ret, inflight>>

Next ==
    \/ Tick
    \/ CreateCourseStructure
    \/ MarkLessonCompleted
    \/ SaveLessonCode
    \/ SaveDetailedLessonPlan
    \/ SaveYoutubeVideos

\* the program alone
Spec == Init /\ [][Next]_vars

NextRenamed == Next \/ RenameLesson

\* the program, with lesson directories renamed from outside between calls
SpecRenamed == Init /\ [][NextRenamed]_vars

NextDamaged ==
    \/ Tick
    \/ CreateCourseStructureOf(SmallDocuments)
    \/ MarkLessonCompleted
    \/ SaveLessonCode
    \/ SaveDetailedLessonPlan
    \/ SaveYoutubeVideos
    \/ DamageMetadata
    \/ MarkLessonCompletedFails
    \/ SaveLessonCodeFails
    \/ SaveDetailedLessonPlanFails
    \/ SaveYoutubeVideosFails

\* the program on a disk whose writes can fail, with metadata files damaged from
\* outside between calls
SpecDamaged == Init /\ [][NextDamaged]_vars

\* the behaviours in which a materialization can fail partway
NextFailing ==
    \/ Tick
    \/ CreateCourseStructureOf(SmallDocuments)
    \/ MarkLessonCompleted \/ SaveLessonCode \/ SaveDetailedLessonPlan \/ SaveYoutubeVideos
    \/ CreateCourseStructureFails

SpecFailing == Init /\ [][NextFailing]_vars

\* the behaviours in which mutations of the lessons of one course overlap
NextConcurrent ==
    \/ Tick
    \/ CreateCourseStructureOf({DocDS})
    \/ BeginCall
    \/ LoadInfo
    \/ DumpInfo

SpecConcurrent == Init /\ [][NextConcurrent]_vars

\* the behaviours in which a course is materialized step by step while it is read
NextStepwise ==
    \/ BeginCreate
    \/ CreateStep
    \/ EndCreate
    \/ ReadProgressDuring
    \/ LookupDuring
    \/ MarkLessonCompleted

SpecStepwise == Init /\ [][NextStepwise]_vars

\* the behaviours in which courses are made under several names
NextNamed ==
    \/ CreateCourseStructureNamed
    \/ MarkLessonCompletedListed

SpecNamed == Init /\ [][NextNamed]_vars

\* the program on a store where agenda.txt or a metadata file can be missing or
\* cut short
NextPartial ==
    \/ Tick
    \/ CreateCourseStructureOf({DocTwo})
    \/ MarkLessonCompleted
    \/ SaveLessonCode
    \/ SaveDetailedLessonPlan
    \/ SaveYoutubeVideos
    \/ DamageMetadata
    \/ LoseAgendaFile
    \/ MarkLessonCompletedFails
    \/ SaveLessonCodeFails
    \/ SaveDetailedLessonPlanFails
    \/ SaveYoutubeVideosFails

SpecPartial == Init /\ [][NextPartial]_vars

\* the program on a course whose sibling names collide
NextClash ==
    \/ Tick
    \/ CreateCourseStructureOf({DocClash})
    \/ MarkLessonCompleted
    \/ SaveDetailedLessonPlan

SpecClash == Init /\ [][NextClash]_vars

-----------------------------------------------------------------------------
(* Properties *)

\* the course names whose directory exists
StoredNames == {course_name \in LookupNames : _safe_name(course_name) \in DOMAIN store}

\* the positions of a document's nodes that lie within the fan-out caps
CappedSections(doc) == {s \in 1..Len(SectionsOf(doc)) : s <= SectionCap}
CappedSubsections(doc) ==
    UNION {{<<s, u>> : u \in {x \in 1..Len(SubsectionsOf(doc.sections[s])) : x <= SubsectionCap}} :
            s \in CappedSections(doc)}
CappedConcepts(doc) ==
    UNION {{<<k[1], k[2], c>> :
                c \in {x \in 1..Len(ConceptsOf(doc.sections[k[1]].subsections[k[2]])) :
                            x <= ConceptCap}} :
            k \in CappedSubsections(doc)}

\* the metadata indices (section, subsection, concept) on the path of lesson
\* directory ld
IndicesOf(course, ld) ==
    <<course.secs[ld[1]].info.v.index,
      course.subs[SubSeq(ld, 1, 2)].info.v.index,
      course.lessons[ld].info.v.index>>

\* the directories of course are one per capped node of doc, each with the
\* node's name and its 1-based position as metadata index
TreeIndexed(course, doc) ==
    /\ Cardinality(DOMAIN course.secs) = Cardinality(CappedSections(doc))
    /\ Cardinality(DOMAIN course.subs) = Cardinality(CappedSubsections(doc))
    /\ Cardinality(DOMAIN course.lessons) = Cardinality(CappedConcepts(doc))
    /\ \A s \in CappedSections(doc) :
        \E md \in DOMAIN course.secs :
            /\ IsVal(course.secs[md].info)
            /\ course.secs[md].info.v.index = s
            /\ course.secs[md].info.v.name = doc.sections[s].name
    /\ \A k \in CappedSubsections(doc) :
        \E smd \in DOMAIN course.subs :
            /\ IsVal(course.subs[smd].info)
            /\ course.secs[smd[1]].info.v.index = k[1]
            /\ course.subs[smd].info.v.index = k[2]
            /\ course.subs[smd].info.v.name = doc.sections[k[1]].subsections[k[2]].name
    /\ \A k \in CappedConcepts(doc) :
        \E ld \in DOMAIN course.lessons :
            /\ IsVal(course.lessons[ld].info)
            /\ IndicesOf(course, ld) = k
            /\ course.lessons[ld].info.v.name =
                    doc.sections[k[1]].subsections[k[2]].concepts[k[3]].name

\* the manifest carries index = position on every capped node
ManifestIndexed(manifest, doc) ==
    /\ \A s \in CappedSections(doc) : manifest.sections[s].index = Val(s)
    /\ \A k \in CappedSubsections(doc) :
        manifest.sections[k[1]].subsections[k[2]].index = Val(k[2])
    /\ \A k \in CappedConcepts(doc) :
        manifest.sections[k[1]].subsections[k[2]].concepts[k[3]].index = Val(k[3])

\* C1 (index stability): in every reachable state of the program, each node of
\* the document last materialized that lies within the caps (7 sections, 10
\* subsections per section, 10 concepts per subsection) has a directory whose
\* metadata index is its 1-based position among its siblings, and the manifest
\* carries the same index; no completion, code save, plan save or video save
\* made since has changed an index.
C1_IndexStability ==
    \A dir \in DOMAIN store :
        /\ TreeIndexed(store[dir], given[dir])
        /\ IsVal(store[dir].manifest)
        /\ ManifestIndexed(store[dir].manifest.v, given[dir])

\* a lesson at position 2 that a plan save, a code save and a video save have
\* written to
C1_Witness ==
    \E dir \in DOMAIN store :
        \E ld \in DOMAIN store[dir].lessons :
            LET lesson == store[dir].lessons[ld]
            IN  /\ lesson.info.v.index = 2
                /\ IsVal(lesson.detailed_plan_txt)
                /\ IsVal(lesson.student_code_txt)
                /\ IsVal(lesson.youtube_videos_json)

\* a document with every index key removed
UnindexedSubsection(subsection) ==
    IF "concepts" \in DOMAIN subsection
    THEN [subsection EXCEPT
            !.index = Absent,
            !.concepts = [c \in DOMAIN subsection.concepts |->
                            [subsection.concepts[c] EXCEPT !.index = Absent]]]
    ELSE [subsection EXCEPT !.index = Absent]
UnindexedSection(section) ==
    IF "subsections" \in DOMAIN section
    THEN [section EXCEPT
            !.index = Absent,
            !.subsections = [u \in DOMAIN section.subsections |->
                                UnindexedSubsection(section.subsections[u])]]
    ELSE [section EXCEPT !.index = Absent]
Unindexed(doc) ==
    IF "sections" \in DOMAIN doc
    THEN [doc EXCEPT !.sections = [s \in DOMAIN doc.sections |->
                                        UnindexedSection(doc.sections[s])]]
    ELSE doc

\* a lesson directory as materialization leaves it: not completed, no plan, no
\* code, no videos, no time accounting
FreshLesson(lesson) ==
    /\ IsVal(lesson.info)
    /\ lesson.info.v.completed = FALSE
    /\ lesson.info.v.detailed_plan = Null
    /\ lesson.info.v.completed_at = Absent
    /\ lesson.info.v.first_code_update = Absent
    /\ lesson.info.v.last_code_update = Absent
    /\ lesson.info.v.total_time_minutes = Absent
    /\ lesson.info.v.code_file = Absent
    /\ lesson.info.v.youtube_videos = Absent
    /\ lesson.info.v.youtube_videos_file = Absent
    /\ IsVal(lesson.agenda_txt)
    /\ lesson.detailed_plan_txt = Absent
    /\ lesson.student_code_txt = Absent
    /\ lesson.youtube_videos_json = Absent
    /\ lesson.video_transcripts = <<>>
    /\ lesson.video_summaries = <<>>

\* the created_at stamps found in a course directory
CreatedAtStamps(course) ==
    {course.secs[d].info.v.created_at : d \in DOMAIN course.secs}
        \cup {course.subs[d].info.v.created_at : d \in DOMAIN course.subs}
        \cup {course.lessons[d].info.v.created_at : d \in DOMAIN course.lessons}

\* C2 (re-materialization replaces the whole subtree): when the last call was
\* create_course_structure(name, D2), the course directory is exactly the tree
\* of D2: the manifest is D2 annotated, the directories are those of D2's
\* capped nodes, every lesson is fresh (completed false, no plan, no code, no
\* videos), and all created_at stamps are of one generation - nothing of an
\* earlier document or of earlier progress remains.
C2_ReplacesSubtree ==
    ret.op = "create_course_structure" =>
        LET dir == _safe_name(ret.course)
            course == store[dir]
        IN  /\ IsVal(course.manifest)
            /\ Unindexed(course.manifest.v) = given[dir]
            /\ ManifestIndexed(course.manifest.v, given[dir])
            /\ TreeIndexed(course, given[dir])
            /\ \A ld \in DOMAIN course.lessons :
                    /\ FreshLesson(course.lessons[ld])
                    /\ course.lessons[ld].agenda_txt.v = course.lessons[ld].info.v.agenda
            /\ Cardinality(CreatedAtStamps(course)) <= 1

\* a course that held progress under a different document has just been
\* materialized again, with a document that has a lesson
C2_Witness ==
    /\ ret.op = "create_course_structure"
    /\ ret.replaced /\ ret.hadProgress /\ ret.otherDoc
    /\ given[_safe_name(ret.course)] = DocTwo

\* lesson directory ld no longer carries the name materialization gave it
IsRenamed(course, ld) ==
    ld[3] # LessonDirName(course.lessons[ld].info.v.index, course.lessons[ld].info.v.name)

C4_NoApproximateMatch ==
    \A course_name \in StoredNames, k \in AnyCoords :
        LET course == store[_safe_name(course_name)]
        IN  /\ \A r \in _get_lesson_directory(store, course_name, k[1], k[2], k[3]) :
                    IsVal(r) => IndicesOf(course, r.v) = k
            /\ \A r \in SaveDetailedPlanTargets(store, course_name, k[1], k[2], k[3]) :
                    IsVal(r) => IndicesOf(course, r.v) = k
            /\ \A ld \in AgendaDirs(course, k[1], k[2], k[3]) : IndicesOf(course, ld) = k
            /\ \A ld \in DetailedPlanDirs(course, k[1], k[2], k[3]) : IndicesOf(course, ld) = k

\* no lesson of the course carries the coordinate k in its metadata, or the
\* course has no directory
NoLessonAt(course_name, k) ==
    \/ course_name \notin StoredNames
    \/ LET course == store[_safe_name(course_name)]
       IN  \A ld \in DOMAIN course.lessons : IndicesOf(course, ld) # k

\* a mutation returned False and left the store as it was
Refused(out) == out = Returned(store, FALSE)

\* C5 (not-found is a sentinel): for a course name without a directory,
\* get_course_progress returns the error-shaped result; for such a name, and for
\* a coordinate no lesson of an existing course carries, the locator and the
\* reads of agenda, plan, code, videos and time return None, is_lesson_completed
\* and has_youtube_videos return False, every mutation returns False, and the
\* store is left without any new file or directory.
C5_NotFoundIsSentinel ==
    \A course_name \in LookupNames :
        /\ course_name \notin StoredNames =>
                DOMAIN get_course_progress(store, course_name) = {"error"}
        /\ \A k \in AnyCoords :
            NoLessonAt(course_name, k) =>
                /\ _get_lesson_directory(store, course_name, k[1], k[2], k[3]) = {Absent}
                /\ get_lesson_agenda(store, course_name, k[1], k[2], k[3]) = {Absent}
                /\ get_detailed_lesson_plan(store, course_name, k[1], k[2], k[3]) = {Absent}
                /\ get_lesson_code(store, course_name, k[1], k[2], k[3]) = {Absent}
                /\ get_youtube_videos(store, course_name, k[1], k[2], k[3]) = {Absent}
                /\ get_lesson_time_spent(store, course_name, k[1], k[2], k[3]) = {Absent}
                /\ is_lesson_completed(store, course_name, k[1], k[2], k[3]) = {FALSE}
                /\ has_youtube_videos(store, course_name, k[1], k[2], k[3]) = {FALSE}
                /\ \A r \in _get_lesson_directory(store, course_name, k[1], k[2], k[3]) :
                    /\ Refused(mark_lesson_completed(store, course_name, r, now, NoFault))
                    /\ \A code_content \in AnyCodeTexts :
                        Refused(save_lesson_code(store, course_name, r, code_content, now, NoFault))
                    /\ \A videos \in AnyVideoLists :
                        Refused(save_youtube_videos(store, course_name, r, videos, NoFault))
                /\ \A r \in SaveDetailedPlanTargets(store, course_name, k[1], k[2], k[3]) :
                    \A detailed_plan \in AnyPlanTexts :
                        Refused(save_detailed_lesson_plan(store, course_name, r,
                                                          detailed_plan, now, NoFault))

\* a course exists, another name has no directory, and the last call was a plan
\* save that returned False
C5_Witness ==
    /\ store # <<>>
    /\ NonexistentName \notin StoredNames
    /\ ret.op = "save_detailed_lesson_plan"
    /\ ~ret.ok

\* C6 (completion idempotence): on an existing lesson mark_lesson_completed
\* returns True, and True again when called a second time; is_lesson_completed
\* is True after each call; the first call changes only completed and
\* completed_at, the second only completed_at; saved code, code timestamps,
\* total time, plan, agenda, name, index, video fields and every other
\* directory stay as they were.
C6_CompletionIdempotent ==
    /\ (ret.op = "mark_lesson_completed" /\ ret.ok) =>
            is_lesson_completed(store, ret.course, ret.coord[1], ret.coord[2],
                                ret.coord[3]) = {TRUE}
    /\ \A course_name \in StoredNames, k \in AnyCoords :
        \A r \in _get_lesson_directory(store, course_name, k[1], k[2], k[3]) :
            IsVal(r) =>
                LET before == LessonAt(store, course_name, r.v)
                    out1 == mark_lesson_completed(store, course_name, r, now, NoFault)
                    after1 == LessonAt(out1.fs, course_name, r.v)
                IN  /\ out1.ok
                    /\ is_lesson_completed(out1.fs, course_name, k[1], k[2], k[3]) = {TRUE}
                    /\ out1.fs = WriteLesson(store, course_name, r.v, after1)
                    /\ after1.info.v.completed_at = IsoFormat(now)
                    /\ after1 = [before EXCEPT !.info =
                                    Val([before.info.v EXCEPT
                                            !.completed = TRUE,
                                            !.completed_at = IsoFormat(now)])]
                    /\ \A t2 \in {now, now + TickSeconds} :
                        LET out2 == mark_lesson_completed(out1.fs, course_name, r, t2, NoFault)
                            after2 == LessonAt(out2.fs, course_name, r.v)
                        IN  /\ _get_lesson_directory(out1.fs, course_name,
                                                     k[1], k[2], k[3]) = {r}
                            /\ out2.ok
                            /\ is_lesson_completed(out2.fs, course_name,
                                                   k[1], k[2], k[3]) = {TRUE}
                            /\ out2.fs = WriteLesson(out1.fs, course_name, r.v, after2)
                            /\ after2 = [after1 EXCEPT !.info =
                                            Val([after1.info.v EXCEPT
                                                    !.completed_at = IsoFormat(t2)])]

\* the same lesson has been marked completed twice in a row, with code saved
\* before
C6_Witness ==
    /\ ret.op = "mark_lesson_completed"
    /\ ret.nth = 2
    /\ \E r \in _get_lesson_directory(store, ret.course, ret.coord[1], ret.coord[2],
                                      ret.coord[3]) :
            /\ IsVal(r)
            /\ IsVal(LessonAt(store, ret.course, r.v).student_code_txt)
            /\ IsVal(LessonAt(store, ret.course, r.v).info.v.total_time_minutes)

\* the seconds that pass between two code saves tried in each reachable state
CodeGaps == {1, TickSeconds, SecondsPerMinute, 2 * TickSeconds + 1}

\* floor(x / y) for x >= 0, y > 0
FloorDiv(x, y) == x \div y

\* C7 (time accounting): on a lesson with no prior code a save at T1 sets
\* first_code_update = last_code_update = T1 and total_time_minutes = 0; a save
\* at T2 > T1 then gives total_time_minutes = floor((T2 - T1) / 60); a third at
\* T3 > T2 gives floor((T3 - T1) / 60): first_code_update stays T1 and the total
\* is recomputed from it.  In every reachable state a lesson with code has
\* total_time_minutes = floor((last_code_update - first_code_update) / 60).
C7_TimeAccounting ==
    /\ \A dir \in DOMAIN store :
        \A ld \in DOMAIN store[dir].lessons :
            LET info == store[dir].lessons[ld].info.v
            IN  IsVal(info.first_code_update) =>
                    /\ IsVal(info.last_code_update)
                    /\ FromIsoFormat(info.first_code_update)
                            <= FromIsoFormat(info.last_code_update)
                    /\ info.total_time_minutes =
                            Val(FloorDiv(FromIsoFormat(info.last_code_update)
                                            - FromIsoFormat(info.first_code_update), 60))
    /\ \A course_name \in StoredNames, k \in Coords :
        \A r \in _get_lesson_directory(store, course_name, k[1], k[2], k[3]) :
            (IsVal(r) /\ ~IsVal(LessonAt(store, course_name, r.v).info.v.first_code_update)) =>
                \A d2 \in CodeGaps, d3 \in CodeGaps, code_content \in CodeTexts :
                    LET T1 == now
                        T2 == T1 + d2
                        T3 == T2 + d3
                        s1 == save_lesson_code(store, course_name, r, code_content, T1, NoFault)
                        s2 == save_lesson_code(s1.fs, course_name, r, code_content, T2, NoFault)
                        s3 == save_lesson_code(s2.fs, course_name, r, code_content, T3, NoFault)
                        i1 == LessonAt(s1.fs, course_name, r.v).info.v
                        i2 == LessonAt(s2.fs, course_name, r.v).info.v
                        i3 == LessonAt(s3.fs, course_name, r.v).info.v
                    IN  /\ s1.ok /\ s2.ok /\ s3.ok
                        /\ i1.first_code_update = IsoFormat(T1)
                        /\ i1.last_code_update = IsoFormat(T1)
                        /\ i1.total_time_minutes = Val(0)
                        /\ i2.first_code_update = IsoFormat(T1)
                        /\ i2.last_code_update = IsoFormat(T2)
                        /\ i2.total_time_minutes = Val(FloorDiv(T2 - T1, 60))
                        /\ i3.first_code_update = IsoFormat(T1)
                        /\ i3.last_code_update = IsoFormat(T3)
                        /\ i3.total_time_minutes = Val(FloorDiv(T3 - T1, 60))

\* code has been saved three times in a row on one lesson, at times 0, T2 and
\* 2 * TickSeconds, and the total is the whole minutes since the first save
C7_Witness ==
    /\ ret.op = "save_lesson_code"
    /\ ret.nth = 3
    /\ now = 2 * TickSeconds
    /\ \E r \in _get_lesson_directory(store, ret.course, ret.coord[1], ret.coord[2],
                                      ret.coord[3]) :
            LET info == LessonAt(store, ret.course, r.v).info.v
            IN  /\ info.first_code_update = IsoFormat(0)
                /\ info.last_code_update = IsoFormat(now)
                /\ info.total_time_minutes.v >= 1

\* the lessons of a course directory whose metadata says completed
CompletedLessons(course) ==
    {ld \in DOMAIN course.lessons : course.lessons[ld].info.v.completed}

\* C8 (progress aggregation): for a course materialized from a document with N
\* lessons within the caps, after any record-store operations that leave k
\* lessons completed, get_course_progress returns total_lessons = N,
\* completed_lessons = k and completion_percentage = 100 * k / N, and 0 when
\* N = 0; always 0 <= completed_lessons <= total_lessons.
C8_ProgressAggregation ==
    \A course_name \in StoredNames :
        LET course == store[_safe_name(course_name)]
            N == Cardinality(CappedConcepts(given[_safe_name(course_name)]))
            k == Cardinality(CompletedLessons(course))
            report == get_course_progress(store, course_name)
            pct == report.completion_percentage
        IN  /\ report.total_lessons = N
            /\ report.completed_lessons = k
            /\ 0 <= report.completed_lessons
            /\ report.completed_lessons <= report.total_lessons
            /\ pct.den # 0
            /\ N > 0 => pct.num * N = 100 * k * pct.den
            /\ N = 0 => pct.num = 0

\* a course of two lessons of which exactly one is completed
C8_Witness ==
    \E course_name \in StoredNames :
        LET report == get_course_progress(store, course_name)
        IN  /\ report.total_lessons = 2
            /\ report.completed_lessons = 1
            /\ report.completion_percentage.num = 50 * report.completion_percentage.den

\* NN: the index as two decimal digits, zero-padded
TwoDigits(i) == <<Digits[(i \div 10) + 1], Digits[(i % 10) + 1]>>

\* <prefix><NN>_<sanitized name> for a directory's metadata
LayoutName(prefix, info) ==
    prefix \o TwoDigits(info.index) \o <<"_">> \o _safe_name(info.name)

\* every directory of every course is named from its metadata, with the given
\* prefixes for section and subsection directories
LayoutWith(sectionPrefix, subsectionPrefix) ==
    \A dir \in DOMAIN store :
        LET course == store[dir]
        IN  /\ \A md \in DOMAIN course.secs :
                    md = LayoutName(sectionPrefix, course.secs[md].info.v)
            /\ \A smd \in DOMAIN course.subs :
                    /\ smd[1] \in DOMAIN course.secs
                    /\ smd[2] = LayoutName(subsectionPrefix, course.subs[smd].info.v)
            /\ \A ld \in DOMAIN course.lessons :
                    /\ SubSeq(ld, 1, 2) \in DOMAIN course.subs
                    /\ ld[3] = LayoutName(<<"l", "e", "s", "s", "o", "n", "_">>,
                                          course.lessons[ld].info.v)

\* the last call materialized "Data Structures" from the document with section
\* Arrays, subsection Basics, concepts Indexing and Traversal
JustMadeDataStructures ==
    /\ ret.op = "create_course_structure"
    /\ ret.course = DataStructuresName
    /\ _safe_name(ret.course) \in DOMAIN given
    /\ given[_safe_name(ret.course)] = DocDS

Data_Structures ==
    <<"D", "a", "t", "a", "_", "S", "t", "r", "u", "c", "t", "u", "r", "e", "s">>

\* course directory Data_Structures holds lesson directory path with
\* concept_info.json saying index 1, completed false
HoldsIndexing(path) ==
    /\ Data_Structures \in DOMAIN store
    /\ path \in DOMAIN store[Data_Structures].lessons
    /\ IsVal(store[Data_Structures].lessons[path].info)
    /\ store[Data_Structures].lessons[path].info.v.index = 1
    /\ store[Data_Structures].lessons[path].info.v.completed = FALSE

C10_PlanImpliesCompletion ==
    /\ (ret.op = "save_detailed_lesson_plan" /\ ret.ok) =>
        /\ is_lesson_completed(store, ret.course, ret.coord[1], ret.coord[2],
                               ret.coord[3]) = {TRUE}
        /\ \A r \in _get_lesson_directory(store, ret.course, ret.coord[1],
                                          ret.coord[2], ret.coord[3]) :
            /\ IsVal(r)
            /\ LessonAt(store, ret.course, r.v).info.v.completed
            /\ LessonAt(store, ret.course, r.v).info.v.detailed_plan \in
                    {Val(detailed_plan) : detailed_plan \in PlanTexts}
            /\ IsVal(LessonAt(store, ret.course, r.v).info.v.completed_at)
    /\ \A course_name \in LookupNames, k \in AnyCoords, detailed_plan \in AnyPlanTexts :
        \A target \in SaveDetailedPlanTargets(store, course_name, k[1], k[2], k[3]) :
            LET out == save_detailed_lesson_plan(store, course_name, target,
                                                 detailed_plan, now, NoFault)
            IN  out.ok =>
                    LET before == LessonAt(store, course_name, target.v)
                        after == LessonAt(out.fs, course_name, target.v)
                    IN  /\ _get_lesson_directory(out.fs, course_name,
                                                 k[1], k[2], k[3]) = {target}
                        /\ after.info.v.completed = TRUE
                        /\ after.info.v.detailed_plan = Val(detailed_plan)
                        /\ after.info.v.completed_at = IsoFormat(now)
                        /\ is_lesson_completed(out.fs, course_name,
                                               k[1], k[2], k[3]) = {TRUE}
                        /\ get_detailed_lesson_plan(out.fs, course_name,
                                                    k[1], k[2], k[3])
                                = {Val(Strip(detailed_plan))}
                        /\ after = [before EXCEPT
                                        !.detailed_plan_txt = after.detailed_plan_txt,
                                        !.info = Val([before.info.v EXCEPT
                                            !.completed = TRUE,
                                            !.detailed_plan = Val(detailed_plan),
                                            !.completed_at = IsoFormat(now)])]
                        /\ out.fs = WriteLesson(store, course_name, target.v, after)

\* a plan save has just returned True on a lesson that had code and videos
C10_Witness ==
    /\ ret.op = "save_detailed_lesson_plan"
    /\ ret.ok
    /\ \E r \in _get_lesson_directory(store, ret.course, ret.coord[1], ret.coord[2],
                                      ret.coord[3]) :
            /\ IsVal(r)
            /\ IsVal(LessonAt(store, ret.course, r.v).info.v.first_code_update)
            /\ IsVal(LessonAt(store, ret.course, r.v).info.v.youtube_videos)

-----------------------------------------------------------------------------
(* Failures: damaged metadata and write faults *)

\* the ways a mutation called on course_name at coordinate k can end, over every
\* directory its lookup can yield and every write fault it can meet
MutationOutcomes(course_name, k) ==
    LET found == _get_lesson_directory(store, course_name, k[1], k[2], k[3])
        targets == SaveDetailedPlanTargets(store, course_name, k[1], k[2], k[3])
    IN  [mark_lesson_completed |->
            {[at |-> ld, out |-> mark_lesson_completed(store, course_name, ld, now, fault)] :
                ld \in found, fault \in AnyFaults},
         save_lesson_code |->
            {[at |-> ld, out |-> save_lesson_code(store, course_name, ld, text, now, fault)] :
                ld \in found, text \in CodeTexts, fault \in AnyFaults},
         save_detailed_lesson_plan |->
            {[at |-> ld,
              out |-> save_detailed_lesson_plan(store, course_name, ld, text, now, fault)] :
                ld \in targets, text \in PlanTexts, fault \in AnyFaults},
         save_youtube_videos |->
            {[at |-> ld, out |-> save_youtube_videos(store, course_name, ld, videos, fault)] :
                ld \in found, videos \in VideoLists, fault \in AnyFaults}]

\* C11 (fail-soft mutations): in every store state, with a course or a lesson
\* missing, a metadata file missing or holding malformed JSON, and under every
\* write fault, mark_lesson_completed, save_lesson_code, save_detailed_lesson_plan
\* and save_youtube_videos end by returning True or False, never by an exception
\* that reaches the caller, and they return False, changing nothing, when the
\* lesson addressed is not located.
C11_FailSoftMutations ==
    \A course_name \in LookupNames, k \in AnyCoords :
        LET outcomes == MutationOutcomes(course_name, k)
        IN  \A op \in DOMAIN outcomes :
                \A e \in outcomes[op] :
                    /\ ~e.out.raised
                    /\ e.out.ok \in BOOLEAN
                    /\ ~IsVal(e.at) => e.out = Returned(store, FALSE)

\* a code save has returned False after its write of concept_info.json failed
\* and left the file truncated, code.py already written
C11_Witness ==
    /\ ret.op = "save_lesson_code"
    /\ ~ret.ok
    /\ \E dir \in DOMAIN store :
        \E ld \in DOMAIN store[dir].lessons :
            /\ store[dir].lessons[ld].info = Corrupt
            /\ IsVal(store[dir].lessons[ld].student_code_txt)

\* a call ended with an exception instead of a return value
Raises(result) == "exception" \in DOMAIN result

\* C12 (read paths never raise on corrupt metadata): with any metadata file of a
\* course holding malformed JSON, get_course_progress, get_course_structure,
\* get_lesson_agenda, get_detailed_lesson_plan, is_lesson_completed,
\* get_lesson_code, get_lesson_time_spent and get_youtube_videos return a report
\* or their absent sentinel, and no exception reaches the caller.
C12_ReadsNeverRaise ==
    \A course_name \in LookupNames :
        /\ ~Raises(get_course_progress(store, course_name))
        /\ ~Raises(get_course_structure(store, course_name))
        /\ \A k \in AnyCoords :
            /\ \A r \in get_lesson_agenda(store, course_name, k[1], k[2], k[3]) : ~Raises(r)
            /\ \A r \in get_detailed_lesson_plan(store, course_name, k[1], k[2], k[3]) :
                    ~Raises(r)
            /\ is_lesson_completed(store, course_name, k[1], k[2], k[3]) \subseteq BOOLEAN
            /\ \A r \in get_lesson_code(store, course_name, k[1], k[2], k[3]) : ~Raises(r)
            /\ \A r \in get_lesson_time_spent(store, course_name, k[1], k[2], k[3]) :
                    ~Raises(r)
            /\ \A r \in get_youtube_videos(store, course_name, k[1], k[2], k[3]) : ~Raises(r)

\* the lessons of a course directory whose own metadata file and both
\* ancestors' metadata files exist
LessonsWithMetadata(course) ==
    {ld \in DOMAIN course.lessons :
        /\ IsVal(course.lessons[ld].info)
        /\ IsVal(course.subs[SubSeq(ld, 1, 2)].info)
        /\ IsVal(course.secs[ld[1]].info)}

\* the index paths of the nodes that are not skipped: a node is skipped when its
\* metadata file or one of its ancestors' is missing
KeptPaths(course) ==
    {<<course.secs[md].info.v.index>> :
        md \in {d \in DOMAIN course.secs : IsVal(course.secs[d].info)}}
    \cup {<<course.secs[smd[1]].info.v.index, course.subs[smd].info.v.index>> :
        smd \in {d \in DOMAIN course.subs :
                    IsVal(course.subs[d].info) /\ IsVal(course.secs[d[1]].info)}}
    \cup {<<course.secs[ld[1]].info.v.index, course.subs[SubSeq(ld, 1, 2)].info.v.index,
            course.lessons[ld].info.v.index>> : ld \in LessonsWithMetadata(course)}

\* the index paths of the entries of a `modules` echo
EchoedPaths(modules) ==
    {<<modules[i].index>> : i \in DOMAIN modules}
    \cup UNION {{<<modules[i].index, modules[i].submodules[j].index>> :
                    j \in DOMAIN modules[i].submodules} : i \in DOMAIN modules}
    \cup UNION {UNION {{<<modules[i].index, modules[i].submodules[j].index,
                          modules[i].submodules[j].lessons[l].index>> :
                            l \in DOMAIN modules[i].submodules[j].lessons} :
                    j \in DOMAIN modules[i].submodules} : i \in DOMAIN modules}

\* the paths of S one level below path p
Below(S, p) == {q \in S : Len(q) = Len(p) + 1 /\ SubSeq(q, 1, Len(p)) = p}

\* no metadata file of the course holds malformed JSON
NoneCorrupt(course) == \A path \in MetadataFiles(course) : MetadataAt(course, path) # Corrupt

\* some metadata file of the course is missing
SomeMissing(course) ==
    \E path \in MetadataFiles(course) : Len(path) > 0 /\ MetadataAt(course, path) = Absent

\* C13 (the aggregator skips nodes without metadata): when section, subsection
\* or lesson directories of an existing course have no metadata file,
\* get_course_progress returns a report, neither the error result nor an
\* exception; its total_lessons, completed_lessons and total_time_minutes count
\* exactly the lessons whose own and both ancestors' metadata files exist, and
\* its modules echo holds exactly the nodes that are not skipped, each once.
C13_SkipsNodesWithoutMetadata ==
    \A course_name \in StoredNames :
        LET course == store[_safe_name(course_name)]
            report == get_course_progress(store, course_name)
            counted == LessonsWithMetadata(course)
            kept == KeptPaths(course)
        IN  NoneCorrupt(course) =>
                /\ ~Raises(report)
                /\ "error" \notin DOMAIN report
                /\ report.total_lessons = Cardinality(counted)
                /\ report.completed_lessons =
                        Cardinality({ld \in counted : course.lessons[ld].info.v.completed})
                /\ report.total_time_minutes = SumLessonTime(course, counted)
                /\ EchoedPaths(report.modules) = kept
                /\ Len(report.modules) = Cardinality(Below(kept, <<>>))
                /\ \A i \in DOMAIN report.modules :
                    LET module == report.modules[i]
                    IN  /\ Len(module.submodules) =
                                Cardinality(Below(kept, <<module.index>>))
                        /\ \A j \in DOMAIN module.submodules :
                            Len(module.submodules[j].lessons) =
                                Cardinality(Below(kept, <<module.index,
                                                          module.submodules[j].index>>))

\* a course with a section or subsection whose metadata file is missing above a
\* lesson that has its own: the report counts fewer lessons than have metadata
C13_Witness ==
    \E course_name \in StoredNames :
        LET course == store[_safe_name(course_name)]
            report == get_course_progress(store, course_name)
        IN  /\ NoneCorrupt(course)
            /\ SomeMissing(course)
            /\ \E ld \in DOMAIN course.lessons :
                /\ IsVal(course.lessons[ld].info)
                /\ ld \notin LessonsWithMetadata(course)
            /\ report.total_lessons <
                    Cardinality({ld \in DOMAIN course.lessons :
                                    IsVal(course.lessons[ld].info)})

-----------------------------------------------------------------------------
(* Attached videos *)

\* the lesson directories of the store, as <<course directory, path>>
StoredLessons ==
    UNION {{<<dir, ld>> : ld \in DOMAIN store[dir].lessons} : dir \in DOMAIN store}

C15_PerVideoFilesTrackList ==
    \A l \in StoredLessons :
        LET lesson == store[l[1]].lessons[l[2]]
            L == lesson.youtube_videos_json.v
        IN  IsVal(lesson.youtube_videos_json) =>
                /\ DOMAIN lesson.video_transcripts = 1..Len(L)
                /\ DOMAIN lesson.video_summaries = 1..Len(L)
                /\ \A i \in 1..Len(L) :
                    /\ lesson.video_transcripts[i] = L[i].transcript
                    /\ lesson.video_summaries[i] = L[i].summary

-----------------------------------------------------------------------------
(* Materialization: caps, manifest, failure *)

\* the directories directly below directory path p
Children(dirs, p) == {d \in dirs : Len(d) = Len(p) + 1 /\ SubSeq(d, 1, Len(p)) = p}

\* the tree of a course directory follows the caps for document doc: min(n, cap)
\* directories at each level, none with an index beyond the cap
WithinCaps(course, doc) ==
    /\ Cardinality(DOMAIN course.secs) = Min(Len(SectionsOf(doc)), SectionCap)
    /\ \A md \in DOMAIN course.secs :
        LET s == course.secs[md].info.v.index
        IN  /\ s \in 1..Min(Len(SectionsOf(doc)), SectionCap)
            /\ Cardinality(Children(DOMAIN course.subs, <<md>>))
                    = Min(Len(SubsectionsOf(doc.sections[s])), SubsectionCap)
    /\ \A smd \in DOMAIN course.subs :
        LET s == course.secs[smd[1]].info.v.index
            u == course.subs[smd].info.v.index
        IN  /\ u \in 1..Min(Len(SubsectionsOf(doc.sections[s])), SubsectionCap)
            /\ Cardinality(Children(DOMAIN course.lessons, smd))
                    = Min(Len(ConceptsOf(doc.sections[s].subsections[u])), ConceptCap)
    /\ \A ld \in DOMAIN course.lessons :
        LET s == course.secs[ld[1]].info.v.index
            u == course.subs[SubSeq(ld, 1, 2)].info.v.index
        IN  course.lessons[ld].info.v.index
                \in 1..Min(Len(ConceptsOf(doc.sections[s].subsections[u])), ConceptCap)

\* C16 (fan-out cap, tolerance of short documents): for a document with any
\* number of sections, subsections and concepts, one without a `sections` key
\* and nodes without a `subsections` / `concepts` key included,
\* create_course_structure ends without an exception and makes exactly
\* min(n, 7) section directories, min(n, 10) subsection directories in each and
\* min(n, 10) lesson directories in each of those; a sibling beyond the cap gets
\* no directory and no metadata file.
C16_FanOutCap ==
    /\ \A doc \in Documents : ~CreateRaises(doc, NoCreateFault)
    /\ \A dir \in DOMAIN store : WithinCaps(store[dir], given[dir])

\* the stored course was made from the document with one sibling more than the
\* cap at each level, and holds 7 sections, 10 subsections and 10 lessons; made
\* from the document with missing keys it would hold two sections, one
\* subsection and no lesson
C16_Witness ==
    /\ ret.op = "create_course_structure"
    /\ \E dir \in DOMAIN store :
        /\ given[dir] = DocWide
        /\ Len(DocWide.sections) = SectionCap + 1
        /\ Cardinality(DOMAIN store[dir].secs) = SectionCap
        /\ Cardinality(DOMAIN store[dir].subs) = SubsectionCap
        /\ Cardinality(DOMAIN store[dir].lessons) = ConceptCap
        /\ LET sparse == create_course_structure(store, DataStructuresName, DocSparse, now,
                                                 NoCreateFault).fs[dir]
           IN  /\ Cardinality(DOMAIN sparse.secs) = 2
               /\ Cardinality(DOMAIN sparse.subs) = 1
               /\ sparse.lessons = <<>>

\* the coordinates of all the nodes of a document, by position, capped or not
AllCoords(doc) ==
    LET secs == {<<s>> : s \in 1..Len(SectionsOf(doc))}
        subs == UNION {{<<k[1], u>> : u \in 1..Len(SubsectionsOf(NodeAt(doc, k)))} :
                            k \in secs}
        cons == UNION {{<<k[1], k[2], c>> : c \in 1..Len(ConceptsOf(NodeAt(doc, k)))} :
                            k \in subs}
    IN  secs \cup subs \cup cons

\* the nodes a manifest describes, as <<coordinate, name>>
ManifestNodes(manifest) == {<<k, NodeAt(manifest, k).name>> : k \in AllCoords(manifest)}

\* the nodes the directory tree describes, as <<indices of the metadata files on
\* the path, name in the node's own metadata file>>
TreeNodes(course) ==
    {<<<<course.secs[md].info.v.index>>, course.secs[md].info.v.name>> :
        md \in DOMAIN course.secs}
    \cup {<<<<course.secs[smd[1]].info.v.index, course.subs[smd].info.v.index>>,
            course.subs[smd].info.v.name>> : smd \in DOMAIN course.subs}
    \cup {<<IndicesOf(course, ld), course.lessons[ld].info.v.name>> :
            ld \in DOMAIN course.lessons}

\* C17 (manifest and tree agree): after create_course_structure, for every input
\* document, those with more siblings than the caps included, every section,
\* subsection and concept of course_structure.json carries an index, and a node
\* is in the manifest at coordinates (s, u, c) exactly when a directory whose
\* metadata has those indices and that name is in the tree.
C17_ManifestAndTreeAgree ==
    \A dir \in DOMAIN store :
        LET manifest == store[dir].manifest.v
        IN  /\ \A k \in AllCoords(manifest) : NodeAt(manifest, k).index = Val(k[Len(k)])
            /\ ManifestNodes(manifest) = TreeNodes(store[dir])

\* the coordinates of the capped nodes of a document that carry a name
NamedCoords(doc) ==
    {k \in {<<i>> : i \in SectionIdxs(doc)} \cup SubsectionCoords(doc) \cup ConceptCoords(doc) :
        /\ "name" \in DOMAIN NodeAt(doc, k)
        /\ \A n \in 1..Len(k) : "name" \in DOMAIN NodeAt(doc, SubSeq(k, 1, n))}

\* the directories of a course directory, as paths
DirsOf(course) ==
    {<<md>> : md \in DOMAIN course.secs} \cup DOMAIN course.subs \cup DOMAIN course.lessons

\* the metadata file of the directory at path d
InfoAt(course, d) ==
    IF Len(d) = 1 THEN course.secs[d[1]].info
    ELSE IF Len(d) = 2 THEN course.subs[d].info
    ELSE course.lessons[d].info

\* the steps of a materialization of doc whose result is in the store: the
\* directory made, the file written whole
StepsSeen(fs, dir, doc) ==
    IF dir \notin DOMAIN fs THEN {Step("rmtree", <<>>)}
    ELSE
      LET course == fs[dir]
          made == {k \in NamedCoords(doc) : DirOfNode(doc, k) \in DirsOf(course)}
      IN  {Step("rmtree", <<>>), Step("mkdir", <<>>)}
          \cup (IF IsVal(course.manifest) THEN {Step("manifest", <<>>)} ELSE {})
          \cup {Step("mkdir", k) : k \in made}
          \cup {Step("info", k) : k \in {x \in made : IsVal(InfoAt(course, DirOfNode(doc, x)))}}
          \cup {Step("agenda", k) :
                    k \in {x \in made : /\ Len(x) = 3
                                        /\ "agenda" \in DOMAIN NodeAt(doc, x)
                                        /\ course.lessons[DirOfNode(doc, x)].agenda_txt
                                                = Val(NodeAt(doc, x).agenda)}}

\* the course directory holds nothing but what a materialization of doc at time
\* t writes: no other directory, no file of an earlier course, no progress
OnlyNewTree(course, doc, t) ==
    /\ course.manifest \in {Absent, Corrupt, Val(EnhancedCourseData(doc))}
    /\ DirsOf(course) \subseteq {DirOfNode(doc, k) : k \in NamedCoords(doc)}
    /\ \A k \in NamedCoords(doc) :
        LET d == DirOfNode(doc, k)
        IN  d \in DirsOf(course) /\ IsVal(InfoAt(course, d)) =>
                /\ InfoAt(course, d).v.name = NodeAt(doc, k).name
                /\ InfoAt(course, d).v.index = k[Len(k)]
                /\ InfoAt(course, d).v.created_at = IsoFormat(t)
    /\ \A ld \in DOMAIN course.lessons :
        /\ ~HasProgress(course.lessons[ld])
        /\ course.lessons[ld].video_transcripts = <<>>
        /\ course.lessons[ld].video_summaries = <<>>

\* C18 (materialization failure is propagated and not rolled back): when
\* create_course_structure fails partway, by an I/O error at a step after the
\* delete or by a node that lacks `name` or a concept that lacks `agenda`, the
\* call ends with the exception; the course stored before under the name is
\* gone and not restored; the store holds the prefix of the new tree written
\* before the failure; and save_course_to_storage, the caller, gets "" for the
\* same call and the same partial tree.
C18_FailureNotRolledBack ==
    /\ \A doc \in SmallDocuments \cup BrokenDocuments :
        \A fault \in {NoCreateFault} \cup CreateFaults(doc) :
            doc \in BrokenDocuments \/ fault # NoCreateFault => CreateRaises(doc, fault)
    /\ ret.op = "create_course_structure" /\ ret.raised =>
        LET dir == _safe_name(ret.course)
            doc == given[dir]
            seen == StepsSeen(store, dir, doc)
        IN  /\ dir \in DOMAIN store => OnlyNewTree(store[dir], doc, ret.at)
            /\ \A st \in seen : StepsBefore(doc, st) \subseteq seen
            /\ ret.fault # NoCreateFault => seen \subseteq StepsBefore(doc, ret.fault.step)
            /\ now = ret.at =>
                save_course_to_storage(store, ret.course, doc, now, ret.fault)
                    = [fs |-> store, course_path |-> <<>>]

\* a materialization has just ended with KeyError 'agenda' on the second concept
\* of a course that had progress: the first lesson is rebuilt without it, the
\* second has an empty concept_info.json and no agenda.txt
C18_Witness ==
    /\ ret.op = "create_course_structure"
    /\ ret.raised
    /\ ret.hadProgress
    /\ \E dir \in DOMAIN store :
        /\ given[dir] = DocNoAgenda
        /\ IsVal(store[dir].manifest)
        /\ \E ld \in DOMAIN store[dir].lessons :
            /\ store[dir].lessons[ld].info = Corrupt
            /\ store[dir].lessons[ld].agenda_txt = Absent
        /\ \E ld \in DOMAIN store[dir].lessons : FreshLesson(store[dir].lessons[ld])
        /\ \A ld \in DOMAIN store[dir].lessons : ~HasProgress(store[dir].lessons[ld])

-----------------------------------------------------------------------------
(* Overlapping mutations of one lesson                                         *)

\* what a mutation that returned True leaves in concept_info.json
UpdatePresent(op, concept_info) ==
    CASE op = "mark_lesson_completed" -> concept_info.completed = TRUE
      [] op = "save_lesson_code" ->
            /\ IsVal(concept_info.first_code_update)
            /\ concept_info.code_file = Val("student_code.txt")
      [] op = "save_detailed_lesson_plan" ->
            /\ concept_info.completed = TRUE
            /\ IsVal(concept_info.detailed_plan)
      [] op = "save_youtube_videos" -> IsVal(concept_info.youtube_videos)

\* the returned call u still shows in the metadata of its lesson
StillShows(u) ==
    \A ld \in _get_lesson_directory(store, u.course, u.coord[1], u.coord[2], u.coord[3]) :
        /\ IsVal(ld)
        /\ IsVal(LessonAt(store, u.course, ld.v).info)
        /\ UpdatePresent(u.op, LessonAt(store, u.course, ld.v).info.v)

\* C19: when the mutations of a course run one after the other (none of the
\* calls that returned True was in flight together with another call), the
\* metadata of every lesson shows the update of every call that returned True:
\* no update is lost.
C19_SequentialCallsLoseNothing ==
    ~ret.overlapped => \A u \in ret.seen : StillShows(u)

\* mark_lesson_completed and save_lesson_code ran on the same lesson with their
\* load and dump steps interleaved, both returned True, no call is in flight,
\* and the lesson's metadata says completed = false: the mark was lost
C19_Witness ==
    /\ Quiescent
    /\ ret.overlapped
    /\ ret.ok
    /\ \E u, v \in ret.seen :
        /\ u.op = "mark_lesson_completed"
        /\ v.op = "save_lesson_code"
        /\ u.course = v.course /\ u.coord = v.coord
        /\ ~StillShows(u)
        /\ \A w \in ret.seen : w.coord = u.coord => w \in {u, v}

-----------------------------------------------------------------------------
(* Reads during a materialization                                              *)

\* every read of the course shows the whole tree of document `doc` written at t
ReadsShowWholeTree(fs, course_name, doc, t) ==
    LET dir == _safe_name(course_name)
        report == get_course_progress(fs, course_name)
    IN  /\ dir \in DOMAIN fs
        /\ fs[dir] = WriteTree(EmptyCourseDir, doc, t)
        /\ get_course_structure(fs, course_name) = Val(EnhancedCourseData(doc))
        /\ DOMAIN report = DOMAIN ProgressReport(course_name, EmptyCourseDir)
        /\ report.total_lessons = Cardinality(ConceptCoords(doc))
        /\ report.completed_lessons = 0
        /\ \A k \in ConceptCoords(doc) :
            _get_lesson_directory(fs, course_name, k[1], k[2], k[3])
                = {Val(ConceptDirOf(doc, k[1], k[2], k[3]))}

\* C20: once create_course_structure has returned and no call is in flight,
\* whatever the readers were shown while it ran, get_course_progress, the
\* manifest read and every coordinate lookup show the complete tree of the new
\* document: all its lessons, none completed, nothing of the old tree.
C20_CompleteAfterReturn ==
    Quiescent /\ ret.op = "create_course_structure" /\ ret.ok =>
        ReadsShowWholeTree(store, ret.course, given[_safe_name(ret.course)], ret.at)

\* a course with progress was materialized again, and while the call was between
\* the delete and its last write a get_course_progress was answered "Course not
\* found", another got a report with fewer lessons than the new document has,
\* and a coordinate lookup returned None; the call has returned
C20_Witness ==
    /\ Quiescent
    /\ ret.op = "create_course_structure" /\ ret.ok
    /\ ret.replaced /\ ret.hadProgress
    /\ {"absent", "partial", "none"} \subseteq ret.seen
    /\ ReadsShowWholeTree(store, ret.course, given[_safe_name(ret.course)], ret.at)

-----------------------------------------------------------------------------
(* Authored fields *)

\* the keys of concept_info.json that create_course_structure takes from the
\* document
Authored(concept_info) ==
    [name |-> concept_info.name, agenda |-> concept_info.agenda,
     index |-> concept_info.index, section_name |-> concept_info.section_name,
     subsection_name |-> concept_info.subsection_name]

\* lesson k of the course materialized from `doc` still carries what the
\* document says, in its metadata and in agenda.txt
AuthoredIntact(course_name, doc, k) ==
    LET section == doc.sections[k[1]]
        subsection == section.subsections[k[2]]
        concept == subsection.concepts[k[3]]
        lesson == LessonAt(store, course_name, ConceptDirOf(doc, k[1], k[2], k[3]))
    IN  /\ IsVal(lesson.info)
        /\ Authored(lesson.info.v)
                = Authored(ConceptInfo(section, subsection, concept, k[3], 0))
        /\ lesson.agenda_txt = Val(concept.agenda)

\* the agenda the document gives lesson k
AuthoredAgenda(doc, k) == doc.sections[k[1]].subsections[k[2]].concepts[k[3]].agenda

\* the lessons of the stored courses, as <<course name, document, coordinate>>
MaterializedLessons ==
    UNION {{<<course_name, given[_safe_name(course_name)], k>> :
                k \in ConceptCoords(given[_safe_name(course_name)])} :
            course_name \in {n \in CourseNames : _safe_name(n) \in DOMAIN store}}

\* C21 as stated (authored fields are immutable): whatever mark_lesson_completed,
\* save_lesson_code, save_detailed_lesson_plan and save_youtube_videos calls
\* have run since a course was materialized, every lesson's name, agenda, index,
\* section_name and subsection_name in concept_info.json and the content of its
\* agenda.txt are the values of the document, and get_lesson_agenda returns the
\* agenda as it was authored.
C21_AuthoredFieldsImmutable ==
    \A l \in MaterializedLessons :
        /\ AuthoredIntact(l[1], l[2], l[3])
        /\ get_lesson_agenda(store, l[1], l[3][1], l[3][2], l[3][3])
                = {Val(AuthoredAgenda(l[2], l[3]))}

\* C21 as amended: the same, with get_lesson_agenda returning the authored
\* agenda without its leading and trailing whitespace, which is what it
\* returned right after the materialization.
C21_AuthoredFieldsImmutableStripped ==
    \A l \in MaterializedLessons :
        /\ AuthoredIntact(l[1], l[2], l[3])
        /\ get_lesson_agenda(store, l[1], l[3][1], l[3][2], l[3][3])
                = {Val(Strip(AuthoredAgenda(l[2], l[3])))}
        /\ get_lesson_agenda(store, l[1], l[3][1], l[3][2], l[3][3])
                = get_lesson_agenda(CreateCourseStructureFs(<<>>, l[1], l[2], 0),
                                    l[1], l[3][1], l[3][2], l[3][3])

\* a lesson whose agenda has whitespace at both ends has been completed with a
\* plan, has got code and videos, and its metadata was written three times since
\* the materialization
C21_Witness ==
    \E l \in StoredLessons :
        LET lesson == store[l[1]].lessons[l[2]]
        IN  /\ lesson.agenda_txt = Val(<<" ", "a", "2", "\n">>)
            /\ lesson.info.v.agenda = <<" ", "a", "2", "\n">>
            /\ IsVal(lesson.info.v.detailed_plan)
            /\ IsVal(lesson.info.v.code_file)
            /\ IsVal(lesson.info.v.youtube_videos)
            /\ lesson.info.v.completed

-----------------------------------------------------------------------------
(* Course names *)

\* strings of up to three characters: characters the sanitizer keeps, replaces
\* and removes, and whitespace
NameAlphabet == {"a", " ", "-", "_", "!", "\t"}
ShortNames ==
    {<<>>} \cup {<<a>> : a \in NameAlphabet}
    \cup {<<a, b>> : a, b \in NameAlphabet}
    \cup {<<a, b, c>> : a, b, c \in NameAlphabet}

\* strings around NameMaxLen characters
LongNames ==
    {LongName,
     [i \in 1..(NameMaxLen + 1) |-> "a"],
     [i \in 1..(NameMaxLen - 1) |-> "a"] \o <<" ", " ">>,
     [i \in 1..(NameMaxLen + 1) |-> " "],
     [i \in 1..NameMaxLen |-> IF i % 2 = 0 THEN "!" ELSE "a"] \o <<"b", " ">>}

AnyNames == ShortNames \cup LongNames \cup NamedCourses \cup {NonexistentName}

\* C22 (name sanitizer): for every input string the result of _safe_name holds
\* only alphanumerics, hyphens and underscores, is at most 50 characters long
\* and is a fixed point of _safe_name; the stages apply in the order keep, strip
\* trailing whitespace, replace spaces, truncate (values of the repository's
\* function on inputs that tell the orders apart); and every name list_courses
\* returns is its own sanitized form and, passed back as a course name, reads
\* the manifest of the course made in that directory.
C22_SafeName ==
    /\ \A x \in AnyNames :
        /\ \A i \in 1..Len(_safe_name(x)) :
                _safe_name(x)[i] \in AlnumChars \cup {"-", "_"}
        /\ Len(_safe_name(x)) <= NameMaxLen
        /\ _safe_name(_safe_name(x)) = _safe_name(x)
    /\ _safe_name(LongName) = [i \in 1..NameMaxLen |-> IF i < NameMaxLen THEN "a" ELSE "_"]
    /\ _safe_name(<<"a", " ", "b", " ">>) = <<"a", "_", "b">>
    /\ _safe_name(<<"a", "\t">>) = <<"a">>
    /\ _safe_name(<<" ", "a">>) = <<"_", "a">>
    /\ _safe_name(<<"a", "!", " ">>) = <<"a">>
    /\ _safe_name(<<"-", "_", " ", "-">>) = <<"-", "_", "_", "-">>
    /\ \A d \in list_courses(store) :
        /\ _safe_name(d) = d
        /\ get_course_structure(store, d) = Val(EnhancedCourseData(given[d]))
        /\ \A course_name \in NamedCourses :
                _safe_name(course_name) = d =>
                    /\ get_course_structure(store, course_name)
                            = get_course_structure(store, d)
                    /\ get_course_progress(store, course_name).total_lessons
                            = get_course_progress(store, d).total_lessons

\* a lesson was completed through the name list_courses returned for the course
\* made as LongName: fifty characters, the last one the underscore of the space
C22_Witness ==
    /\ ret.op = "mark_lesson_completed"
    /\ ret.ok
    /\ ret.course \in list_courses(store)
    /\ ret.course = _safe_name(LongName)
    /\ ret.course # LongName
    /\ Len(ret.course) = NameMaxLen
    /\ is_lesson_completed(store, LongName, ret.coord[1], ret.coord[2], ret.coord[3])
            = {TRUE}

-----------------------------------------------------------------------------
(* The agenda of a lesson whose files are not all there *)

\* C23 (agenda lookup tolerates partial writes): for every lesson directory of
\* a materialized course, get_lesson_agenda at the lesson's coordinate returns
\* the content of agenda.txt when the file exists, whether or not
\* concept_info.json does; otherwise the agenda key of concept_info.json when
\* that file exists and parses; None only when neither is there; and on the
\* store right after a materialization, the agenda the document gives.
C23_AgendaToleratesPartialWrites ==
    \A l \in MaterializedLessons :
        LET ld == ConceptDirOf(l[2], l[3][1], l[3][2], l[3][3])
            lesson == LessonAt(store, l[1], ld)
            agenda == get_lesson_agenda(store, l[1], l[3][1], l[3][2], l[3][3])
            fresh == CreateCourseStructureFs(store, l[1], l[2], now)
        IN  /\ IsVal(lesson.agenda_txt) => agenda = {lesson.agenda_txt}
            /\ ~Exists(lesson.agenda_txt) /\ IsVal(lesson.info) =>
                    agenda = {Val(lesson.info.v.agenda)}
            /\ Absent \in agenda => ~Exists(lesson.agenda_txt) /\ ~IsVal(lesson.info)
            /\ get_lesson_agenda(fresh, l[1], l[3][1], l[3][2], l[3][3])
                    = {Val(AuthoredAgenda(l[2], l[3]))}

-----------------------------------------------------------------------------
(* The locator beside a damaged directory *)

\* the metadata files on the path of lesson k of `doc` are as they were written
OwnMetadataIntact(course, doc, k) ==
    LET md == SectionDirOf(doc, k[1])
        smd == SubsectionDirOf(doc, k[1], k[2])
        ld == ConceptDirOf(doc, k[1], k[2], k[3])
    IN  /\ IsVal(course.secs[md].info) /\ course.secs[md].info.v.index = k[1]
        /\ IsVal(course.subs[smd].info) /\ course.subs[smd].info.v.index = k[2]
        /\ IsVal(course.lessons[ld].info) /\ course.lessons[ld].info.v.index = k[3]

\* C24 (locator tolerates a damaged neighbour): whatever metadata file of
\* another lesson, section or subsection directory is missing or does not
\* parse, and in whatever order sibling directories are enumerated,
\* _get_lesson_directory resolves every coordinate whose own section_info.json,
\* subsection_info.json and concept_info.json are intact to its directory, and
\* is_lesson_completed and mark_lesson_completed work on it.
C24_LocatorToleratesDamagedNeighbour ==
    \A l \in MaterializedLessons :
        OwnMetadataIntact(store[_safe_name(l[1])], l[2], l[3]) =>
            LET ld == ConceptDirOf(l[2], l[3][1], l[3][2], l[3][3])
                found == _get_lesson_directory(store, l[1], l[3][1], l[3][2], l[3][3])
            IN  /\ found = {Val(ld)}
                /\ is_lesson_completed(store, l[1], l[3][1], l[3][2], l[3][3])
                        = {LessonAt(store, l[1], ld).info.v.completed}
                /\ \A lesson_dir \in found :
                        mark_lesson_completed(store, l[1], lesson_dir, now, NoFault).ok

-----------------------------------------------------------------------------
(* Completion between materializations *)

\* is_lesson_completed(course_name, s, u, c) returns True
CompletedNow(fs, course_name, k) ==
    is_lesson_completed(fs, course_name, k[1], k[2], k[3]) = {TRUE}

\* the step is a create_course_structure of the course course_name is stored as
MaterializesCourse(course_name) ==
    /\ ret'.op = "create_course_structure"
    /\ _safe_name(ret'.course) = _safe_name(course_name)

\* C25: once is_lesson_completed(course, s, u, c) has returned True it keeps
\* returning True after every further call, on any lesson of any course; the
\* only call after which it can return False again is create_course_structure
\* for the same course
C25_CompletionMonotonic ==
    [][\A course_name \in NamedCourses, k \in Coords :
            CompletedNow(store, course_name, k) /\ ~MaterializesCourse(course_name)
                => CompletedNow(store', course_name, k)]_vars

-----------------------------------------------------------------------------
(* What a call on one lesson leaves alone *)

\* the lesson directories that do not hold the same files in fs and gs
ChangedLessons(fs, gs) ==
    {p \in UNION {{<<d, ld>> : ld \in DOMAIN fs[d].lessons} : d \in DOMAIN fs} :
        \/ p[1] \notin DOMAIN gs
        \/ p[2] \notin DOMAIN gs[p[1]].lessons
        \/ gs[p[1]].lessons[p[2]] # fs[p[1]].lessons[p[2]]}

\* the manifests, the section and subsection metadata files and the set of
\* lesson directories are the same in fs and gs
TreeMetadataSame(fs, gs) ==
    /\ DOMAIN gs = DOMAIN fs
    /\ \A d \in DOMAIN fs :
        /\ gs[d].manifest = fs[d].manifest
        /\ gs[d].secs = fs[d].secs
        /\ gs[d].subs = fs[d].subs
        /\ DOMAIN gs[d].lessons = DOMAIN fs[d].lessons

\* the lesson directory a successful call was addressed to
AddressedLesson(call) ==
    IF ~call.ok THEN {}
    ELSE LET dir == _safe_name(call.course)
         IN  {<<dir, ConceptDirOf(given[dir], k[1], k[2], k[3])>> :
                k \in {call.coord} \cap ConceptCoords(given[dir])}

\* C26 (per-lesson isolation): a mark_lesson_completed, save_lesson_code,
\* save_detailed_lesson_plan or save_youtube_videos call addressed to (s, u, c)
\* of a course leaves the files of every other lesson of every course, the
\* section and subsection metadata files and the manifests as they were
C26_PerLessonIsolation ==
    [][ret'.op \in MutationNames =>
            /\ TreeMetadataSame(store, store')
            /\ ChangedLessons(store, store') \subseteq AddressedLesson(ret')]_vars

\* a call on lesson (1,1,1) has just returned True while lesson (1,1,2) of the
\* same course holds a completion and a plan of its own
C26_Witness ==
    /\ ret.op = "save_lesson_code"
    /\ ret.ok
    /\ ret.coord = <<1, 1, 1>>
    /\ \E l \in MaterializedLessons :
        /\ l[1] = ret.course
        /\ l[3] = <<1, 1, 2>>
        /\ LET other == LessonAt(store, l[1], ConceptDirOf(l[2], 1, 1, 2))
               own == LessonAt(store, l[1], ConceptDirOf(l[2], 1, 1, 1))
           IN  /\ IsVal(other.info) /\ other.info.v.completed
               /\ Exists(other.detailed_plan_txt)
               /\ ~Exists(other.student_code_txt)
               /\ Exists(own.student_code_txt)
               /\ IsVal(own.info) /\ ~own.info.v.completed

-----------------------------------------------------------------------------
(* What a materialization leaves alone *)

\* C27 (per-course isolation of materialization): create_course_structure(A, ...)
\* deletes and writes only inside A's own course directory, also for a name A
\* whose sanitized token is empty: every other stored course keeps its manifest,
\* tree and lesson records, and list_courses still reports it
C27_PerCourseIsolation ==
    [][ret'.op = "create_course_structure" =>
            \A d \in DOMAIN store \ {_safe_name(ret'.course)} :
                /\ d \in DOMAIN store'
                /\ store'[d] = store[d]
                /\ d \in list_courses(store) => d \in list_courses(store')]_vars

-----------------------------------------------------------------------------
(* Siblings with the same token *)

\* the lesson directory _get_lesson_directory gives for coordinate k, if it
\* gives exactly one
ResolvedDir(fs, course_name, k) ==
    {lesson_dir.v : lesson_dir \in {x \in _get_lesson_directory(fs, course_name, k[1], k[2], k[3]) :
                                        IsVal(x)}}

\* C28 (sibling name collisions do not merge lessons): also when sibling
\* sections, subsections or concepts have names that are equal or give the same
\* token, every capped coordinate of the document resolves to one lesson
\* directory, with the metadata file of its own concept, no two coordinates to
\* the same one, and get_course_progress counts as many lessons as the document
\* has capped concepts
C28_CollisionsKeepLessonsApart ==
    \A course_name \in StoredNames :
        LET doc == given[_safe_name(course_name)]
            course == store[_safe_name(course_name)]
        IN  /\ \A k \in ConceptCoords(doc) :
                /\ _get_lesson_directory(store, course_name, k[1], k[2], k[3]) \cap {Absent} = {}
                /\ \A ld \in ResolvedDir(store, course_name, k) :
                    /\ IsVal(course.lessons[ld].info)
                    /\ Authored(course.lessons[ld].info.v) =
                            Authored(ConceptInfo(doc.sections[k[1]],
                                                 doc.sections[k[1]].subsections[k[2]],
                                                 NodeAt(doc, k), k[3], 0))
                    /\ \A j \in ConceptCoords(doc) \ {k} :
                            ld \notin ResolvedDir(store, course_name, j)
            /\ Cardinality(DOMAIN course.secs) = Cardinality(SectionIdxs(doc))
            /\ Cardinality(DOMAIN course.subs) = Cardinality(SubsectionCoords(doc))
            /\ get_course_progress(store, course_name).total_lessons =
                    Cardinality(ConceptCoords(doc))

\* the first of two concepts with the same name has been completed, the second
\* has not, and the progress report counts all six lessons
C28_Witness ==
    /\ ret.op = "mark_lesson_completed"
    /\ ret.ok
    /\ ret.coord = <<1, 1, 1>>
    /\ given[_safe_name(ret.course)] = DocClash
    /\ is_lesson_completed(store, ret.course, 1, 1, 1) = {TRUE}
    /\ is_lesson_completed(store, ret.course, 1, 1, 2) = {FALSE}
    /\ is_lesson_completed(store, ret.course, 2, 1, 2) = {FALSE}
    /\ get_course_progress(store, ret.course).total_lessons = 6
    /\ get_course_progress(store, ret.course).completed_lessons = 1

-----------------------------------------------------------------------------
(* The two ways of finding a lesson directory *)

\* the coordinates the resolvers are compared on: those of the stored document,
\* those the calls are made with, and some outside every tree
ProbeCoords(doc) == ConceptCoords(doc) \cup AnyCoords

\* what the glob of get_lesson_agenda, save_detailed_lesson_plan and
\* get_detailed_lesson_plan selects for coordinate k: its matches, or Absent
GlobSelects(course, k) ==
    LET G == GlobLessonPattern(course, k[1], k[2], k[3])
    IN  IF G = {} THEN {Absent} ELSE {Val(ld) : ld \in G}

\* C29 (the two resolvers agree on materialized courses): in the states the
\* program reaches by its own calls, the glob on directory names and the
\* metadata scan of _get_lesson_directory select the same lesson directory for
\* every coordinate, and none for a coordinate outside the tree; the directory
\* save_detailed_lesson_plan writes the plan into is the one is_lesson_completed
\* and get_course_progress report on
C29_ResolversAgree ==
    \A course_name \in StoredNames :
        LET course == store[_safe_name(course_name)]
            doc == given[_safe_name(course_name)]
        IN  \A k \in ProbeCoords(doc) :
                LET byName == GlobSelects(course, k)
                    byInfo == _get_lesson_directory(store, course_name, k[1], k[2], k[3])
                IN  /\ byName = byInfo
                    /\ Cardinality(byName) = 1
                    /\ (k \in ConceptCoords(doc)) = (Absent \notin byInfo)
                    /\ SaveDetailedPlanTargets(store, course_name, k[1], k[2], k[3]) = byInfo
                    /\ \A r \in byName :
                        IsVal(r) /\ Exists(course.lessons[r.v].detailed_plan_txt) =>
                            /\ is_lesson_completed(store, course_name, k[1], k[2], k[3]) = {TRUE}
                            /\ r.v \in WalkedLessons(course)
                            /\ get_course_progress(store, course_name).completed_lessons >= 1

\* a plan has just been saved for lesson (1,1,2) of a course with more than one
\* lesson: the glob and the scan both give the directory that holds it
C29_Witness ==
    /\ ret.op = "save_detailed_lesson_plan"
    /\ ret.ok
    /\ ret.coord = <<1, 1, 2>>
    /\ LET course == store[_safe_name(ret.course)]
       IN  /\ Cardinality(DOMAIN course.lessons) > 1
           /\ \E ld \in DOMAIN course.lessons :
                /\ GlobSelects(course, ret.coord) = {Val(ld)}
                /\ _get_lesson_directory(store, ret.course, 1, 1, 2) = {Val(ld)}
                /\ Exists(course.lessons[ld].detailed_plan_txt)
                /\ course.lessons[ld].info.v.completed

-----------------------------------------------------------------------------
(* What a call that returned False has done *)

\* the step is a call that met no write fault: not a file damaged from outside,
\* not a call in which open() or write() raised
CallWithoutFault ==
    /\ used'.damages = used.damages
    /\ used'.renames = used.renames
    /\ used'.faults = used.faults

\* C30 (a False result means nothing was changed): when mark_lesson_completed,
\* save_lesson_code, save_detailed_lesson_plan or save_youtube_videos returns
\* False because the lesson was not found or its metadata is missing or
\* malformed, the call has created or modified no file of the store
C30_FalseMeansUnchanged ==
    [][(ret'.op \in MutationNames /\ ~ret'.ok /\ CallWithoutFault) => store' = store]_vars

=============================================================================
